---- MODULE Spec2Model ----
(***************************************************************************)
(* A model of wand's play executor (src/src/executor/mod.rs) with the      *)
(* inventory, template and module-result code it calls.  Strings are TLA+  *)
(* strings; Rust byte offsets are kept 0-based, with -1 for None.          *)
(***************************************************************************)
EXTENDS Integers, Sequences, FiniteSets, TLC

VARIABLES inventory, executor, play, phase, jobs, results, main, fcall

vars == <<inventory, executor, play, phase, jobs, results, main, fcall>>

(***************************************************************************)
(* Bounds of the model.                                                    *)
(***************************************************************************)
MaxTasks == 2

(***************************************************************************)
(* Option<T>: None is the empty sequence, Some(v) is <<v>>.                *)
(***************************************************************************)
None == <<>>

Some(v) == <<v>>

IsSome(o) == o # <<>>

Unwrap(o) == o[1]

(***************************************************************************)
(* HashMap<String, V> as a function on a finite set of strings.            *)
(***************************************************************************)
EmptyMap == [k \in {} |-> ""]

MapInsert(m, k, v) == [x \in (DOMAIN m) \cup {k} |-> IF x = k THEN v ELSE m[x]]

MapGetOr(m, k, d) == IF k \in DOMAIN m THEN m[k] ELSE d

\* extending a map with every entry of another (a loop of insert calls)
MapExtend(m, n) == [x \in (DOMAIN m) \cup (DOMAIN n) |-> IF x \in DOMAIN n THEN n[x] ELSE m[x]]

(***************************************************************************)
(* str primitives of the Rust standard library, on 0-based offsets.        *)
(***************************************************************************)
Slice(s, a, b) == SubSeq(s, a + 1, b)

SliceFrom(s, a) == SubSeq(s, a + 1, Len(s))

CharAt(s, i) == SubSeq(s, i + 1, i + 1)

StartsWith(s, p) == Len(p) <= Len(s) /\ SubSeq(s, 1, Len(p)) = p

EndsWith(s, p) == Len(p) <= Len(s) /\ SubSeq(s, Len(s) - Len(p) + 1, Len(s)) = p

\* str::find: the offset of the first occurrence of p in s, -1 when there is none
Find(s, p) ==
    LET hits == {i \in 0..(Len(s) - Len(p)) : Slice(s, i, i + Len(p)) = p}
    IN  IF hits = {} THEN -1 ELSE CHOOSE i \in hits : \A j \in hits : i <= j

Contains(s, p) == Find(s, p) >= 0

IsWhite(c) == c \in {" ", "\t", "\n", "\r"}

RECURSIVE TrimStart(_)
TrimStart(s) == IF Len(s) > 0 /\ IsWhite(CharAt(s, 0)) THEN TrimStart(SliceFrom(s, 1)) ELSE s

RECURSIVE TrimEnd(_)
TrimEnd(s) ==
    IF Len(s) > 0 /\ IsWhite(CharAt(s, Len(s) - 1)) THEN TrimEnd(Slice(s, 0, Len(s) - 1)) ELSE s

Trim(s) == TrimEnd(TrimStart(s))

IsQuote(c) == c \in {"\"", "'"}

RECURSIVE TrimQuotesStart(_)
TrimQuotesStart(s) ==
    IF Len(s) > 0 /\ IsQuote(CharAt(s, 0)) THEN TrimQuotesStart(SliceFrom(s, 1)) ELSE s

RECURSIVE TrimQuotesEnd(_)
TrimQuotesEnd(s) ==
    IF Len(s) > 0 /\ IsQuote(CharAt(s, Len(s) - 1))
    THEN TrimQuotesEnd(Slice(s, 0, Len(s) - 1))
    ELSE s

\* str::trim_matches(|c| c == '"' || c == '\'')
TrimQuotes(s) == TrimQuotesEnd(TrimQuotesStart(s))

\* str::split_once: None, or Some(<<before, after>>) around the first occurrence
SplitOnce(s, p) ==
    LET i == Find(s, p)
    IN  IF i < 0 THEN None ELSE Some(<<Slice(s, 0, i), SliceFrom(s, i + Len(p))>>)

\* bool::to_string
BoolToString(b) == IF b THEN "true" ELSE "false"

\* i32::to_string
IntToString(n) == ToString(n)


\* str::split(sep) for a non-empty separator, collected into a Vec
RECURSIVE Split(_, _)
Split(s, sep) ==
    LET i == Find(s, sep)
    IN  IF i < 0 THEN <<s>> ELSE <<Slice(s, 0, i)>> \o Split(SliceFrom(s, i + Len(sep)), sep)

\* [String]::join(sep)
RECURSIVE Join(_, _)
Join(parts, sep) ==
    IF Len(parts) = 0 THEN ""
    ELSE IF Len(parts) = 1 THEN parts[1]
    ELSE parts[1] \o sep \o Join(Tail(parts), sep)

\* str::replace(old, new) for a non-empty old
StrReplace(s, old, new) == Join(Split(s, old), new)

LowerLetters == "abcdefghijklmnopqrstuvwxyz"

UpperLetters == "ABCDEFGHIJKLMNOPQRSTUVWXYZ"

CharToUpper(c) ==
    LET i == Find(LowerLetters, c) IN IF Len(c) = 1 /\ i >= 0 THEN CharAt(UpperLetters, i) ELSE c

CharToLower(c) ==
    LET i == Find(UpperLetters, c) IN IF Len(c) = 1 /\ i >= 0 THEN CharAt(LowerLetters, i) ELSE c

RECURSIVE ToUppercase(_)
ToUppercase(s) ==
    IF Len(s) = 0 THEN "" ELSE CharToUpper(CharAt(s, 0)) \o ToUppercase(SliceFrom(s, 1))

RECURSIVE ToLowercase(_)
ToLowercase(s) ==
    IF Len(s) = 0 THEN "" ELSE CharToLower(CharAt(s, 0)) \o ToLowercase(SliceFrom(s, 1))

(***************************************************************************)
(* src/src/template/mod.rs                                                 *)
(***************************************************************************)
RECURSIVE process_comments(_)
process_comments(template) ==
    LET start == Find(template, "{#")
    IN  IF start < 0 THEN template
        ELSE LET e == Find(SliceFrom(template, start), "#}")
             IN  IF e < 0 THEN template
                 ELSE process_comments(Slice(template, 0, start) \o SliceFrom(template, start + e + 2))

\* template::eval_expr: a quoted literal, or a variable looked up in the scope
tpl_eval_expr(expr, vs) ==
    LET e == Trim(expr)
    IN  IF StartsWith(e, "\"") \/ StartsWith(e, "'") THEN TrimQuotes(e) ELSE MapGetOr(vs, e, "")

Truthy(value) == value # "" /\ value # "false" /\ value # "0"

RECURSIVE eval_condition(_, _)
eval_condition(condition, vs) ==
    LET c  == Trim(condition)
        eq == SplitOnce(c, "==")
        ne == SplitOnce(c, "!=")
    IN  IF IsSome(eq) THEN tpl_eval_expr(Trim(eq[1][1]), vs) = tpl_eval_expr(Trim(eq[1][2]), vs)
        ELSE IF IsSome(ne)
        THEN tpl_eval_expr(Trim(ne[1][1]), vs) # tpl_eval_expr(Trim(ne[1][2]), vs)
        ELSE IF StartsWith(c, "not ") THEN ~eval_condition(Trim(SliceFrom(c, 4)), vs)
        ELSE Truthy(MapGetOr(vs, c, ""))

\* the scanning loop of find_endif from offset pos at nesting depth
RECURSIVE find_endif_from(_, _, _)
find_endif_from(s, pos, depth) ==
    IF pos >= Len(s) THEN -1
    ELSE LET f == Find(SliceFrom(s, pos), "{%")
         IN  IF f < 0 THEN -1
             ELSE LET tag_start == pos + f
                      tag_end   == Find(SliceFrom(s, tag_start + 2), "%}")
                  IN  IF tag_end < 0 THEN -1
                      ELSE LET tag_content == Trim(Slice(s, tag_start + 2, tag_start + 2 + tag_end))
                               next        == tag_start + 2 + tag_end + 2
                           IN  IF StartsWith(tag_content, "if ")
                               THEN find_endif_from(s, next, depth + 1)
                               ELSE IF tag_content = "endif"
                               THEN IF depth - 1 = 0 THEN tag_start
                                    ELSE find_endif_from(s, next, depth - 1)
                               ELSE find_endif_from(s, next, depth)

find_endif(s) == find_endif_from(s, 0, 1)

find_tag_len(s, tag) ==
    LET start == Find(s, "{%")
    IN  IF start < 0 THEN 0
        ELSE LET e == Find(SliceFrom(s, start + 2), "%}")
             IN  IF e < 0 THEN 0
                 ELSE IF Trim(Slice(s, start + 2, start + 2 + e)) = tag THEN start + 2 + e + 2
                 ELSE 0

\* the scanning loop of split_if_else; the result is <<if_block, else_block>>
RECURSIVE split_if_else_from(_, _, _)
split_if_else_from(block, pos, depth) ==
    IF pos >= Len(block) THEN <<block, "">>
    ELSE LET f == Find(SliceFrom(block, pos), "{%")
         IN  IF f < 0 THEN <<block, "">>
             ELSE LET tag_start == pos + f
                      tag_end   == Find(SliceFrom(block, tag_start + 2), "%}")
                  IN  IF tag_end < 0 THEN <<block, "">>
                      ELSE LET tag_content ==
                                   Trim(Slice(block, tag_start + 2, tag_start + 2 + tag_end))
                               next        == tag_start + 2 + tag_end + 2
                           IN  IF StartsWith(tag_content, "if ")
                               THEN split_if_else_from(block, next, depth + 1)
                               ELSE IF tag_content = "endif"
                               THEN split_if_else_from(block, next, depth - 1)
                               ELSE IF tag_content = "else" /\ depth = 0
                               THEN <<Slice(block, 0, tag_start), SliceFrom(block, next)>>
                               ELSE split_if_else_from(block, next, depth)

split_if_else(block) == split_if_else_from(block, 0, 0)

RECURSIVE process_conditionals(_, _)
process_conditionals(template, vs) ==
    LET if_start == Find(template, "{%")
    IN  IF if_start < 0 THEN template
        ELSE
        LET after_tag == SliceFrom(template, if_start + 2)
            tag_end   == Find(after_tag, "%}")
        IN  IF tag_end < 0 THEN template
            ELSE
            LET tag_content == Trim(Slice(after_tag, 0, tag_end))
            IN  IF ~StartsWith(tag_content, "if ") THEN template
                ELSE
                LET condition == Trim(SliceFrom(tag_content, 3))
                    if_end    == if_start + 2 + tag_end + 2
                    endif_pos == find_endif(SliceFrom(template, if_end))
                IN  IF endif_pos < 0 THEN template
                    ELSE
                    LET block_content == Slice(template, if_end, if_end + endif_pos)
                        endif_end     == if_end + endif_pos
                                           + find_tag_len(SliceFrom(template, if_end + endif_pos), "endif")
                        blocks        == split_if_else(block_content)
                        output        == IF eval_condition(condition, vs)
                                         THEN process_conditionals(blocks[1], vs)
                                         ELSE process_conditionals(blocks[2], vs)
                    IN  process_conditionals(
                            Slice(template, 0, if_start) \o output \o SliceFrom(template, endif_end), vs)

RECURSIVE find_endfor_from(_, _, _)
find_endfor_from(s, pos, depth) ==
    IF pos >= Len(s) THEN -1
    ELSE LET f == Find(SliceFrom(s, pos), "{%")
         IN  IF f < 0 THEN -1
             ELSE LET tag_start == pos + f
                      tag_end   == Find(SliceFrom(s, tag_start + 2), "%}")
                  IN  IF tag_end < 0 THEN -1
                      ELSE LET tag_content == Trim(Slice(s, tag_start + 2, tag_start + 2 + tag_end))
                               next        == tag_start + 2 + tag_end + 2
                           IN  IF StartsWith(tag_content, "for ")
                               THEN find_endfor_from(s, next, depth + 1)
                               ELSE IF tag_content = "endfor"
                               THEN IF depth - 1 = 0 THEN tag_start
                                    ELSE find_endfor_from(s, next, depth - 1)
                               ELSE find_endfor_from(s, next, depth)

find_endfor(s) == find_endfor_from(s, 0, 1)

RECURSIVE TrimAll(_)
TrimAll(parts) == IF Len(parts) = 0 THEN <<>> ELSE <<Trim(parts[1])>> \o TrimAll(Tail(parts))

get_list_items(expr, vs) == IF expr \in DOMAIN vs THEN TrimAll(Split(vs[expr], ",")) ELSE <<>>

apply_filter(value, filter) ==
    CASE filter = "lower" -> ToLowercase(value)
      [] filter = "upper" -> ToUppercase(value)
      [] filter = "capitalize" ->
            IF Len(value) = 0 THEN "" ELSE CharToUpper(CharAt(value, 0)) \o SliceFrom(value, 1)
      [] filter = "trim" -> Trim(value)
      [] filter = "length" -> IntToString(Len(value))
      [] OTHER -> value

\* the filters default, replace, join and split; regex_replace is not used by
\* the templates of this model
apply_filter_with_args(value, filter, args0, vs) ==
    LET args == Trim(args0)
        arg  == IF StartsWith(args, "\"") \/ StartsWith(args, "'")
                THEN TrimQuotes(args)
                ELSE MapGetOr(vs, args, args)
    IN  CASE filter = "default" -> IF value = "" THEN arg ELSE value
          [] filter = "replace" ->
                LET on == SplitOnce(arg, ",")
                IN  IF IsSome(on) /\ TrimQuotes(Trim(on[1][1])) # ""
                    THEN StrReplace(value, TrimQuotes(Trim(on[1][1])), TrimQuotes(Trim(on[1][2])))
                    ELSE value
          [] filter = "join" -> Join(TrimAll(Split(value, ",")), arg)
          [] filter = "split" -> IF arg = "" THEN value ELSE Join(Split(value, arg), ", ")
          [] OTHER -> value

RECURSIVE TrimEndParens(_)
TrimEndParens(s) ==
    IF Len(s) > 0 /\ CharAt(s, Len(s) - 1) = ")" THEN TrimEndParens(Slice(s, 0, Len(s) - 1)) ELSE s

\* the loop of apply_filters over the filters of the chain
RECURSIVE apply_filter_list(_, _, _)
apply_filter_list(value, filters, vs) ==
    IF Len(filters) = 0 THEN value
    ELSE LET filter == Trim(filters[1])
             call   == SplitOnce(filter, "(")
             next   == IF IsSome(call)
                       THEN apply_filter_with_args(value, Trim(call[1][1]), TrimEndParens(call[1][2]), vs)
                       ELSE apply_filter(value, filter)
         IN  apply_filter_list(next, Tail(filters), vs)

apply_filters(value, filter_chain, vs) == apply_filter_list(value, Split(filter_chain, "|"), vs)

\* one iteration of the while loop of process_variables: the text after it,
\* or None when the loop is left
\* process_variables, one iteration, in its steps: the value of an expression,
\* with its filters if it has any
expression_value(expr, piped, vs) ==
    IF IsSome(piped)
    THEN apply_filters(MapGetOr(vs, Trim(piped[1][1]), ""), piped[1][2], vs)
    ELSE MapGetOr(vs, expr, "")

\* result with the expression from start to end replaced by its value
substitute(template, start, end, expr, vs) ==
    Slice(template, 0, start) \o expression_value(expr, SplitOnce(expr, "|"), vs)
      \o SliceFrom(template, end)

\* e: where the first }} after start is, counted from start
close_expression(template, start, e, vs) ==
    IF e < 0 THEN None
    ELSE Some(substitute(template, start, start + e + 2,
                         Trim(Slice(template, start + 2, start + e)), vs))

\* start: where the first {{ of result is
open_expression(template, start, vs) ==
    IF start < 0 THEN None
    ELSE close_expression(template, start, Find(SliceFrom(template, start), "}}"), vs)

variables_iteration(template, vs) == open_expression(template, Find(template, "{{"), vs)

RECURSIVE process_variables(_, _)
process_variables(template, vs) ==
    LET next == variables_iteration(template, vs)
    IN  IF IsSome(next) THEN process_variables(Unwrap(next), vs) ELSE template

\* the body of a for loop rendered once per item, concatenated
RECURSIVE render_items(_, _, _, _)
render_items(block, var_name, items, vs) ==
    IF Len(items) = 0 THEN ""
    ELSE process_variables(block, MapInsert(vs, var_name, items[1]))
           \o render_items(block, var_name, Tail(items), vs)

RECURSIVE process_loops(_, _)
process_loops(template, vs) ==
    LET for_start == Find(template, "{% for ")
    IN  IF for_start < 0 THEN template
        ELSE
        LET te == Find(SliceFrom(template, for_start + 2), "%}")
        IN  IF te < 0 THEN template
            ELSE
            LET tag_end     == for_start + 2 + te + 2
                tag_content == Trim(Slice(template, for_start + 7, tag_end - 2))
                parts       == SplitOnce(tag_content, " in ")
            IN  IF ~IsSome(parts) THEN template
                ELSE
                LET var_name   == Trim(parts[1][1])
                    items_expr == Trim(parts[1][2])
                    endfor_pos == find_endfor(SliceFrom(template, tag_end))
                IN  IF endfor_pos < 0 THEN template
                    ELSE
                    LET block      == Slice(template, tag_end, tag_end + endfor_pos)
                        endfor_end == tag_end + endfor_pos
                                        + find_tag_len(SliceFrom(template, tag_end + endfor_pos), "endfor")
                        output     == render_items(block, var_name, get_list_items(items_expr, vs), vs)
                    IN  process_loops(
                            Slice(template, 0, for_start) \o output \o SliceFrom(template, endfor_end), vs)

render(template, vs) ==
    process_variables(process_loops(process_conditionals(process_comments(template), vs), vs), vs)

(***************************************************************************)
(* src/src/executor/mod.rs: eval_when and eval_expr                        *)
(***************************************************************************)
eval_expr(expr, vs) ==
    LET e == Trim(expr)
    IN  IF StartsWith(e, "\"") \/ StartsWith(e, "'") THEN TrimQuotes(e) ELSE MapGetOr(vs, e, "")

RECURSIVE eval_when(_, _)
eval_when(condition0, vs) ==
    LET condition == Trim(condition0)
        eq        == SplitOnce(condition, "==")
        ne        == SplitOnce(condition, "!=")
    IN  IF IsSome(eq) THEN eval_expr(Trim(eq[1][1]), vs) = eval_expr(Trim(eq[1][2]), vs)
        ELSE IF IsSome(ne) THEN eval_expr(Trim(ne[1][1]), vs) # eval_expr(Trim(ne[1][2]), vs)
        ELSE IF StartsWith(condition, "not ") THEN ~eval_when(Trim(SliceFrom(condition, 4)), vs)
        ELSE IF EndsWith(condition, " is defined")
        THEN Trim(Slice(condition, 0, Len(condition) - 11)) \in DOMAIN vs
        ELSE IF EndsWith(condition, " is undefined")
        THEN Trim(Slice(condition, 0, Len(condition) - 13)) \notin DOMAIN vs
        ELSE Truthy(MapGetOr(vs, condition, ""))

(***************************************************************************)
(* src/src/modules/mod.rs: ModuleResult                                    *)
(***************************************************************************)
ModuleResult_ok(msg) ==
    [changed |-> FALSE, failed |-> FALSE, msg |-> msg, stdout |-> "", stderr |-> "", rc |-> 0]

ModuleResult_changed(msg) ==
    [changed |-> TRUE, failed |-> FALSE, msg |-> msg, stdout |-> "", stderr |-> "", rc |-> 0]

ModuleResult_failed(msg) ==
    [changed |-> FALSE, failed |-> TRUE, msg |-> msg, stdout |-> "", stderr |-> "", rc |-> 1]

with_output(r, stdout, stderr, rc) ==
    [r EXCEPT !.stdout = stdout, !.stderr = stderr, !.rc = rc,
              !.failed = IF rc # 0 THEN TRUE ELSE @]

(***************************************************************************)
(* serde_yaml::Value, as far as the executor looks at it.                  *)
(***************************************************************************)
YStr(s) == [kind |-> "str", s |-> s]

YBool(b) == [kind |-> "bool", b |-> b]

YInt(n) == [kind |-> "int", n |-> n]

YMap(m) == [kind |-> "map", m |-> m]

(***************************************************************************)
(* The connection: what a call on it can return.  The remote host is the   *)
(* environment, so every answer the transport can give is possible.        *)
(***************************************************************************)
ExecOk(stdout, stderr, exit_code) ==
    [ok |-> TRUE, stdout |-> stdout, stderr |-> stderr, exit_code |-> exit_code]

ExecErr == [ok |-> FALSE, stdout |-> "", stderr |-> "", exit_code |-> 0]

ExecResults == {ExecOk("out", "", 0), ExecOk("", "err", 1), ExecErr}

ExecOp(command) == [op |-> "exec", arg |-> command]

\* what one module run yields: its result and the calls it made on the connection
Outcome(result, ops) == [result |-> result, ops |-> ops]

(***************************************************************************)
(* src/src/executor/mod.rs: the modules the executor dispatches to.  Each  *)
(* is the set of outcomes it can have, one per answer of the connection.   *)
(***************************************************************************)
MissingArg(key) == ModuleResult_failed("missing required argument: " \o key)

run_command(args) ==
    IF "_raw" \notin DOMAIN args /\ "cmd" \notin DOMAIN args THEN {Outcome(MissingArg("cmd"), <<>>)}
    ELSE LET cmd      == IF "_raw" \in DOMAIN args THEN args["_raw"] ELSE args["cmd"]
             full_cmd == IF "chdir" \in DOMAIN args
                         THEN "cd " \o args["chdir"] \o " && " \o cmd
                         ELSE cmd
         IN  {Outcome(IF x.ok
                      THEN with_output(ModuleResult_changed("command executed"),
                                       x.stdout, x.stderr, x.exit_code)
                      ELSE ModuleResult_failed("command failed: error"),
                      <<ExecOp(full_cmd)>>) : x \in ExecResults}

\* the result of an exec that must exit 0 to count as a change
MutationResult(x, msg) ==
    IF x.ok /\ x.exit_code = 0 THEN ModuleResult_changed(msg)
    ELSE IF x.ok THEN ModuleResult_failed(x.stderr)
    ELSE ModuleResult_failed("error")

run_apt(args) ==
    IF "name" \notin DOMAIN args THEN {Outcome(MissingArg("name"), <<>>)}
    ELSE LET name  == args["name"]
             state == MapGetOr(args, "state", "present")
             query == ExecOp("dpkg-query -W -f='${Status}' " \o name
                               \o " 2>/dev/null | grep -q 'ok installed'")
             install == ExecOp("DEBIAN_FRONTEND=noninteractive apt-get install -y -qq " \o name)
             remove  == ExecOp("DEBIAN_FRONTEND=noninteractive apt-get remove -y -qq " \o name)
         IN  UNION {
               LET is_installed == q.ok /\ q.exit_code = 0
               IN  IF state \in {"present", "installed"}
                   THEN IF is_installed
                        THEN {Outcome(ModuleResult_ok("already installed"), <<query>>)}
                        ELSE {Outcome(MutationResult(x, "installed"), <<query, install>>) :
                                x \in ExecResults}
                   ELSE IF state = "absent"
                   THEN IF ~is_installed
                        THEN {Outcome(ModuleResult_ok("already absent"), <<query>>)}
                        ELSE {Outcome(MutationResult(x, "removed"), <<query, remove>>) :
                                x \in ExecResults}
                   ELSE {Outcome(ModuleResult_failed("unknown state: " \o state), <<query>>)}
               : q \in ExecResults}

run_service(args) ==
    IF "name" \notin DOMAIN args THEN {Outcome(MissingArg("name"), <<>>)}
    ELSE IF "state" \notin DOMAIN args
    THEN {Outcome(ModuleResult_ok("no state specified"), <<>>)}
    ELSE LET name == args["name"]
             st   == args["state"]
         IN  IF st = "started"
             THEN {Outcome(MutationResult(x, "started"), <<ExecOp("systemctl start " \o name)>>) :
                     x \in ExecResults}
             ELSE IF st = "stopped"
             THEN {Outcome(MutationResult(x, "stopped"), <<ExecOp("systemctl stop " \o name)>>) :
                     x \in ExecResults}
             ELSE IF st = "restarted"
             THEN {Outcome(MutationResult(x, "restarted"),
                           <<ExecOp("systemctl restart " \o name)>>) : x \in ExecResults}
             ELSE {Outcome(ModuleResult_failed("unknown state: " \o st), <<>>)}

\* the command a shell or raw module runs; no argument but _raw, cmd and
\* chdir is read
run_shell(args) ==
    IF "_raw" \notin DOMAIN args /\ "cmd" \notin DOMAIN args THEN {Outcome(MissingArg("cmd"), <<>>)}
    ELSE LET cmd      == IF "_raw" \in DOMAIN args THEN args["_raw"] ELSE args["cmd"]
             quoted   == "sh -c '" \o StrReplace(cmd, "'", "'\\''") \o "'"
             full_cmd == IF "chdir" \in DOMAIN args
                         THEN "cd " \o args["chdir"] \o " && " \o quoted
                         ELSE quoted
         IN  {Outcome(IF x.ok
                      THEN with_output(ModuleResult_changed("shell executed"),
                                       x.stdout, x.stderr, x.exit_code)
                      ELSE ModuleResult_failed("shell failed: error"),
                      <<ExecOp(full_cmd)>>) : x \in ExecResults}

run_raw(args) ==
    IF "_raw" \notin DOMAIN args /\ "cmd" \notin DOMAIN args THEN {Outcome(MissingArg("cmd"), <<>>)}
    ELSE LET cmd      == IF "_raw" \in DOMAIN args THEN args["_raw"] ELSE args["cmd"]
             full_cmd == IF "chdir" \in DOMAIN args
                         THEN "cd " \o args["chdir"] \o " && " \o cmd
                         ELSE cmd
         IN  {Outcome(IF x.ok
                      THEN with_output(ModuleResult_changed("raw command executed"),
                                       x.stdout, x.stderr, x.exit_code)
                      ELSE ModuleResult_failed("raw command failed: error"),
                      <<ExecOp(full_cmd)>>) : x \in ExecResults}

\* str::lines: the text between line feeds, without a last empty line
Lines(s) ==
    LET parts == Split(s, "\n")
    IN  IF parts[Len(parts)] = "" THEN SubSeq(parts, 1, Len(parts) - 1) ELSE parts

WriteOp(path, content) == [op |-> "write_file", arg |-> path, content |-> content]

\* run_lineinfile on a host whose file at path holds file (None: it cannot
\* be read): the result, the calls, and the file afterwards
run_lineinfile(args, file) ==
    IF "path" \notin DOMAIN args
    THEN {[result |-> MissingArg("path"), ops |-> <<>>, file |-> file]}
    ELSE IF "line" \notin DOMAIN args
    THEN {[result |-> MissingArg("line"), ops |-> <<>>, file |-> file]}
    ELSE LET line        == args["line"]
             content_str == IF IsSome(file) THEN Unwrap(file) ELSE ""
             read        == [op |-> "read_file", arg |-> args["path"]]
             new_content == TrimEnd(content_str) \o "\n" \o line
         IN  IF \E k \in 1..Len(Lines(content_str)) : Lines(content_str)[k] = line
             THEN {[result |-> ModuleResult_ok("line present"), ops |-> <<read>>, file |-> file]}
             ELSE {[result |-> ModuleResult_changed("line added"),
                    ops |-> <<read, WriteOp(args["path"], new_content)>>,
                    file |-> Some(new_content)],
                   [result |-> ModuleResult_failed("error"),
                    ops |-> <<read, WriteOp(args["path"], new_content)>>,
                    file |-> file]}

\* the modules the calls of this model name: command, shell, raw, apt and
\* service, and yum, which extract_module knows and run_module does not
run_module(module, args, vs) ==
    CASE module = "command" -> run_command(args)
      [] module = "shell" -> run_shell(args)
      [] module = "raw" -> run_raw(args)
      [] module = "apt" -> run_apt(args)
      [] module = "service" -> run_service(args)
      [] OTHER -> {Outcome(ModuleResult_failed("unknown module: " \o module), <<>>)}

known_modules ==
    {"command", "shell", "copy", "file", "template", "apt", "service", "lineinfile", "raw",
     "script", "yum", "dnf", "pip", "user", "group"}

\* the ModuleArgs built from a module key's value
module_args(value, vs) ==
    IF value.kind = "str" THEN [k \in {"_raw"} |-> render(value.s, vs)]
    ELSE IF value.kind = "map"
    THEN LET kept == {k \in DOMAIN value.m : value.m[k].kind \in {"str", "bool"}}
         IN  [k \in kept |-> IF value.m[k].kind = "str" THEN render(value.m[k].s, vs)
                             ELSE BoolToString(value.m[k].b)]
    ELSE EmptyMap

\* task.module is a HashMap: the first known key in its iteration order is
\* taken, so every known key of the task is a possible answer
extract_module(task, vs) ==
    {<<key, module_args(task.module[key], vs)>> : key \in (DOMAIN task.module) \cap known_modules}

(***************************************************************************)
(* src/src/inventory/mod.rs: Inventory                                     *)
(***************************************************************************)
\* pushing the hosts of a group that the list does not hold yet
RECURSIVE PushNew(_, _)
PushNew(hosts, more) ==
    IF Len(more) = 0 THEN hosts
    ELSE PushNew(IF \E i \in 1..Len(hosts) : hosts[i] = more[1] THEN hosts
                 ELSE Append(hosts, more[1]),
                 Tail(more))

\* acc is [hosts, visited], the two &mut arguments
RECURSIVE collect_hosts_recursive(_, _)
RECURSIVE collect_children(_, _)
collect_hosts_recursive(group_name, acc) ==
    IF group_name \in acc.visited THEN acc
    ELSE LET seen == [acc EXCEPT !.visited = @ \cup {group_name}]
         IN  IF group_name \in DOMAIN inventory.groups
             THEN collect_children(inventory.groups[group_name].children,
                                   [seen EXCEPT !.hosts =
                                      PushNew(@, inventory.groups[group_name].hosts)])
             ELSE seen

collect_children(children, acc) ==
    IF Len(children) = 0 THEN acc
    ELSE collect_children(Tail(children), collect_hosts_recursive(children[1], acc))

get_group_hosts(group_name) ==
    IF group_name \in DOMAIN inventory.groups
    THEN collect_hosts_recursive(group_name, [hosts |-> <<>>, visited |-> {}]).hosts
    ELSE <<>>

SeqContains(q, x) == \E i \in 1..Len(q) : q[i] = x

\* the groups get_host_groups returns, in some order
get_host_groups(host_name) ==
    {g \in DOMAIN inventory.groups :
        \/ SeqContains(inventory.groups[g].hosts, host_name)
        \/ SeqContains(get_group_hosts(g), host_name)}

\* every order in which a HashMap can yield the keys in S
Orders(S) ==
    {q \in [1..Cardinality(S) -> S] : \A a, b \in 1..Cardinality(S) : a # b => q[a] # q[b]}

\* for group_name in &groups: a key is inserted unless vars holds it already
RECURSIVE merge_group_vars(_, _)
merge_group_vars(groups, vs) ==
    IF Len(groups) = 0 THEN vs
    ELSE merge_group_vars(Tail(groups), MapExtend(inventory.groups[groups[1]].vars, vs))

\* the maps get_host_vars can return, one per order of get_host_groups
get_host_vars(host_name) ==
    {MapExtend(merge_group_vars(groups, EmptyMap),
               IF host_name \in DOMAIN inventory.hosts THEN inventory.hosts[host_name].vars
               ELSE EmptyMap) : groups \in Orders(get_host_groups(host_name))}

(***************************************************************************)
(* src/src/executor/mod.rs: Executor                                       *)
(***************************************************************************)
\* Executor::forks
forks(n) == IF n >= 1 THEN n ELSE 1

\* a filter that lets the tag always through before it looks at skip_tags
should_run_task_always_first(task) ==
    IF \E i \in 1..Len(task.tags) : task.tags[i] = "always" THEN TRUE
    ELSE IF executor.skip_tags # {} /\ \E i \in 1..Len(task.tags) : task.tags[i] \in executor.skip_tags
    THEN FALSE
    ELSE IF executor.tags # {}
    THEN \E i \in 1..Len(task.tags) : task.tags[i] \in executor.tags
    ELSE TRUE

should_run_task(task) ==
    IF executor.skip_tags # {} /\ \E i \in 1..Len(task.tags) : task.tags[i] \in executor.skip_tags
    THEN FALSE
    ELSE IF executor.tags # {}
    THEN \/ \E i \in 1..Len(task.tags) : task.tags[i] = "always"
         \/ \E i \in 1..Len(task.tags) : task.tags[i] \in executor.tags
    ELSE TRUE

RECURSIVE FilterHosts(_)
FilterHosts(names) ==
    IF Len(names) = 0 THEN <<>>
    ELSE (IF Trim(names[1]) \in DOMAIN inventory.hosts THEN <<Trim(names[1])>> ELSE <<>>)
           \o FilterHosts(Tail(names))

\* the host lists resolve_pattern can return
resolve_pattern(pattern) ==
    IF pattern = "all" THEN Orders(DOMAIN inventory.hosts)
    ELSE IF pattern = "localhost" THEN {<<"localhost">>}
    ELSE IF pattern \in DOMAIN inventory.groups THEN {inventory.groups[pattern].hosts}
    ELSE IF pattern \in DOMAIN inventory.hosts THEN {<<pattern>>}
    ELSE {FilterHosts(Split(pattern, ","))}

ToSet(q) == {q[i] : i \in 1..Len(q)}

\* Regex::is_match of "^" + p + "$" on s from offsets i and j, for a p
\* made of ".*" (any run of characters), "." (any character) and
\* characters that stand for themselves
RECURSIVE RegexMatchFrom(_, _, _, _)
RegexMatchFrom(p, i, s, j) ==
    IF i >= Len(p) THEN j = Len(s)
    ELSE IF CharAt(p, i) = "." /\ i + 1 < Len(p) /\ CharAt(p, i + 1) = "*"
    THEN \E k \in j..Len(s) : RegexMatchFrom(p, i + 2, s, k)
    ELSE /\ j < Len(s)
         /\ CharAt(p, i) = "." \/ CharAt(p, i) = CharAt(s, j)
         /\ RegexMatchFrom(p, i + 1, s, j + 1)

\* the hosts expand_limit_pattern yields, as the set resolve_limit makes
\* of them
expand_limit_pattern(pattern) ==
    IF pattern \in DOMAIN inventory.groups THEN ToSet(inventory.groups[pattern].hosts)
    ELSE IF Contains(pattern, "*")
    THEN {h \in DOMAIN inventory.hosts : RegexMatchFrom(StrReplace(pattern, "*", ".*"), 0, h, 0)}
    ELSE IF Contains(pattern, ",") THEN ToSet(FilterHosts(Split(pattern, ",")))
    ELSE IF pattern \in DOMAIN inventory.hosts THEN {pattern}
    ELSE {}

\* the loop of resolve_limit over the parts of the limit; acc is
\* [included, excluded]
RECURSIVE limit_parts(_, _)
limit_parts(parts, acc) ==
    IF Len(parts) = 0 THEN acc
    ELSE LET part == Trim(parts[1])
         IN  limit_parts(Tail(parts),
                 IF part = "" THEN acc
                 ELSE IF StartsWith(part, "!")
                 THEN [acc EXCEPT !.excluded = @ \cup expand_limit_pattern(SliceFrom(part, 1))]
                 ELSE [acc EXCEPT !.included = @ \cup expand_limit_pattern(part)])

\* a resolve_limit that removes the excluded hosts before it falls back to
\* all hosts
resolve_limit_excluding_first(limit) ==
    LET acc      == limit_parts(Split(limit, ":"), [included |-> {}, excluded |-> {}])
        included == acc.included \ acc.excluded
    IN  IF included = {} THEN DOMAIN inventory.hosts ELSE included

resolve_limit(limit) ==
    LET acc      == limit_parts(Split(limit, ":"), [included |-> {}, excluded |-> {}])
        included == IF acc.included = {} THEN DOMAIN inventory.hosts ELSE acc.included
    IN  included \ acc.excluded

\* Vec::retain(|h| keep.contains(h))
Retain(hosts, keep) == SelectSeq(hosts, LAMBDA h : h \in keep)

\* the target lists resolve_hosts can return
resolve_hosts(pattern) ==
    IF IsSome(executor.limit)
    THEN {Retain(hosts, resolve_limit(Unwrap(executor.limit))) : hosts \in resolve_pattern(pattern)}
    ELSE resolve_pattern(pattern)

PlayResult_default(host_name) ==
    [host |-> host_name, ok |-> 0, changed |-> 0, failed |-> 0, skipped |-> 0,
     task_results |-> <<>>]

TaskResult(task_name, host, result) == [task_name |-> task_name, host |-> host, result |-> result]

TaskName(task) == IF IsSome(task.name) THEN Unwrap(task.name) ELSE "unnamed"

\* the connections run_play_on_host can end up with for a host of the
\* inventory: Some(conn.host()), or None when SshConnection::connect fails
Connect(host) ==
    IF MapGetOr(host.vars, "ansible_connection", "") = "local" THEN {Some("localhost")}
    ELSE {Some(MapGetOr(host.vars, "ansible_host", host.name)), None}

\* the play vars that are strings
PlayVarStrings == {k \in DOMAIN play.vars : play.vars[k].kind = "str"}

\* the scope run_play_on_host builds before the task loop
BuildHostVars(host_name, host) ==
    LET injected == MapInsert(MapInsert(EmptyMap, "inventory_hostname", host_name),
                              "ansible_host", MapGetOr(host.vars, "ansible_host", host.name))
        with_host == MapExtend(injected, host.vars)
        with_play == MapExtend(with_host, [k \in PlayVarStrings |-> play.vars[k].s])
    IN  MapExtend(with_play, executor.extra_vars)

\* the match on the result that counts it in the PlayResult
Classify(result, r) ==
    IF r.failed THEN [result EXCEPT !.failed = @ + 1]
    ELSE IF r.changed THEN [result EXCEPT !.changed = @ + 1]
    ELSE [result EXCEPT !.ok = @ + 1]

\* run_task, "Handle register"
Register(task, vs, result) ==
    IF IsSome(task.register)
    THEN LET reg == Unwrap(task.register)
         IN  MapInsert(MapInsert(MapInsert(MapInsert(MapInsert(vs,
                 reg \o ".stdout", result.stdout),
                 reg \o ".stderr", result.stderr),
                 reg \o ".rc", IntToString(result.rc)),
                 reg \o ".changed", BoolToString(result.changed)),
                 reg \o ".failed", BoolToString(result.failed))
    ELSE vs

\* Notify without the test of result.changed: every notify list is taken
NotifyAlways(task, notified, result) ==
    IF IsSome(task.notify)
    THEN notified \cup {Unwrap(task.notify)[i] : i \in 1..Len(Unwrap(task.notify))}
    ELSE notified

\* run_task, "Handle notify"
Notify(task, notified, result) ==
    IF result.changed /\ IsSome(task.notify)
    THEN notified \cup {Unwrap(task.notify)[i] : i \in 1..Len(Unwrap(task.notify))}
    ELSE notified

\* Execute without the test of check_mode: the module is always called
ExecuteIgnoringCheckMode(module, args, vs) == run_module(module, args, vs)

\* run_task, "Execute module"
Execute(module, args, vs) ==
    IF executor.check_mode THEN {Outcome(ModuleResult_ok("check mode"), <<>>)}
    ELSE run_module(module, args, vs)

\* what run_task returns and leaves in vars and notified, with the calls
\* made on the connection
TaskOutcome(task, conn_host, result, vs, notified, ops) ==
    [task_result |-> TaskResult(TaskName(task), conn_host, result), vars |-> vs,
     notified |-> notified, ops |-> ops]

\* run_task without the check of the when condition
run_task_ignoring_when(conn_host, task, vs, notified) ==
    IF extract_module(task, vs) = {}
    THEN {TaskOutcome(task, conn_host, ModuleResult_failed("no module found in task"),
                      vs, notified, <<>>)}
    ELSE UNION {{TaskOutcome(task, conn_host, o.result, Register(task, vs, o.result),
                             Notify(task, notified, o.result), o.ops) :
                   o \in Execute(m[1], m[2], vs)} : m \in extract_module(task, vs)}

run_task(conn_host, task, vs, notified) ==
    IF IsSome(task.when) /\ ~eval_when(render(Unwrap(task.when), vs), vs)
    THEN {TaskOutcome(task, conn_host, ModuleResult_ok("skipped"), vs, notified, <<>>)}
    ELSE IF extract_module(task, vs) = {}
    THEN {TaskOutcome(task, conn_host, ModuleResult_failed("no module found in task"),
                      vs, notified, <<>>)}
    ELSE UNION {{TaskOutcome(task, conn_host, o.result, Register(task, vs, o.result),
                             Notify(task, notified, o.result), o.ops) :
                   o \in Execute(m[1], m[2], vs)} : m \in extract_module(task, vs)}

(***************************************************************************)
(* The inputs: inventories, executors and plays the runs start from.       *)
(***************************************************************************)
Host(name, vs) == [name |-> name, vars |-> vs]

Group(name, hosts, children, vs) ==
    [name |-> name, hosts |-> hosts, children |-> children, vars |-> vs]

\* [web] web1 ansible_connection=local env=staging debug=false
\* [db] db1 ansible_host=10.0.0.2   [web:vars] port=80 env=group
\* [prod:children] web db           [prod:vars] tier=prod
Web1 ==
    Host("web1", [k \in {"ansible_connection", "env", "debug"} |->
                    CASE k = "ansible_connection" -> "local" [] k = "env" -> "staging"
                      [] k = "debug" -> "false"])

Db1 == Host("db1", [k \in {"ansible_host"} |-> "10.0.0.2"])

InventoryProd ==
    [hosts  |-> [h \in {"web1", "db1"} |-> IF h = "web1" THEN Web1 ELSE Db1],
     groups |-> [g \in {"web", "db", "prod"} |->
                   CASE g = "web" -> Group("web", <<"web1">>, <<>>,
                                           [k \in {"port", "env"} |->
                                              IF k = "port" THEN "80" ELSE "group"])
                     [] g = "db" -> Group("db", <<"db1">>, <<>>, EmptyMap)
                     [] g = "prod" -> Group("prod", <<>>, <<"web", "db">>,
                                            [k \in {"tier"} |-> "prod"])]]

Inventories == {InventoryProd}

ExtraVarSets == {EmptyMap, [k \in {"r.rc", "env"} |-> IF k = "r.rc" THEN "7" ELSE "prod"]}

\* Executor::new with the builder calls main makes
Executors ==
    {[extra_vars |-> e, check_mode |-> c, forks |-> forks(5), tags |-> t, skip_tags |-> s,
      limit |-> None] :
        e \in ExtraVarSets, c \in BOOLEAN, t \in {{}, {"deploy"}}, s \in {{}, {"slow"}}}

Task(name, when, register, notify, tags, module) ==
    [name |-> name, when |-> when, register |-> register, notify |-> notify, tags |-> tags,
     module |-> module]

TaskCommand ==
    Task(Some("run"), None, Some("r"), Some(<<"restart">>), <<"deploy">>,
         [k \in {"command"} |-> YStr("echo {{ env }}")])

TaskApt ==
    Task(Some("pkg"), Some("env == 'prod'"), None, Some(<<"reload", "restart">>), <<"slow">>,
         [k \in {"apt"} |-> YMap([a \in {"name", "update_cache"} |->
                                    IF a = "name" THEN YStr("nginx") ELSE YBool(TRUE)])])

\* a task whose only key is one extract_module does not know
TaskDebug ==
    Task(None, None, Some("r"), None, <<>>, [k \in {"debug"} |-> YStr("msg=hi")])

TaskService ==
    Task(Some("svc"), Some("r.rc == \"0\""), Some("s"), Some(<<"restart">>), <<"always">>,
         [k \in {"service"} |-> YMap([a \in {"name", "state"} |->
                                        IF a = "name" THEN YStr("nginx") ELSE YStr("started")])])

TaskYum ==
    Task(Some("yum"), Some("inventory_hostname != 'db1'"), Some("r"), None,
         <<"deploy", "slow">>,
         [k \in {"yum"} |-> YMap([a \in {"name"} |-> YStr("nginx")])])

\* a task tagged always that also carries a tag an executor skips
TaskAudit ==
    Task(Some("audit"), None, None, Some(<<"reload">>), <<"always", "slow">>,
         [k \in {"command"} |-> YStr("true")])

TaskPool == {TaskCommand, TaskApt, TaskDebug, TaskService, TaskYum, TaskAudit}

TaskLists == UNION {[1..n -> TaskPool] : n \in 0..MaxTasks}

HandlerRestart ==
    Task(Some("restart"), None, None, Some(<<"reload">>), <<>>,
         [k \in {"service"} |-> YMap([a \in {"name", "state"} |->
                                        IF a = "name" THEN YStr("nginx") ELSE YStr("restarted")])])

HandlerReload ==
    Task(Some("reload"), Some("not r.failed"), Some("h"), None, <<>>,
         [k \in {"command"} |-> YStr("nginx -s reload")])

\* a second handler declared under the name restart
HandlerRestartAgain ==
    Task(Some("restart"), None, None, None, <<>>,
         [k \in {"service"} |-> YMap([a \in {"name"} |-> YStr("nginx")])])

HandlerUnnamed ==
    Task(None, None, None, None, <<>>, [k \in {"command"} |-> YStr("true")])

HandlerLists ==
    {<<>>, <<HandlerRestart, HandlerReload>>,
     <<HandlerUnnamed, HandlerRestart, HandlerRestartAgain>>}

PlayVarSets ==
    {EmptyMap, [k \in {"env", "debug"} |-> IF k = "env" THEN YStr("prod") ELSE YBool(TRUE)]}

Patterns == {"web1", "db1", "localhost"}

Plays ==
    {[hosts |-> p, tasks |-> t, handlers |-> h, vars |-> v] :
        p \in Patterns, t \in TaskLists, h \in HandlerLists, v \in PlayVarSets}

(***************************************************************************)
(* The run of one play: run_play fans the target hosts out to workers,     *)
(* each worker runs run_play_on_host for one host at a time.               *)
(***************************************************************************)
\* log[k] tells what made task_results[k]: the task or handler at idx, and
\* the calls it issued on the connection
LogEntry(kind, idx, ops) == [kind |-> kind, idx |-> idx, ops |-> ops]

NewJob(host_name) ==
    [host |-> host_name, pc |-> "queued", idx |-> 0, worker |-> 0, conn |-> None,
     host_vars |-> EmptyMap, notified |-> {}, result |-> PlayResult_default(host_name),
     log |-> <<>>]

\* where the loops of run_play_on_host stand: <<pc, idx>>
EnterHandlers == IF Len(play.handlers) > 0 THEN <<"handlers", 1>> ELSE <<"done", 0>>

EnterTasks == IF Len(play.tasks) > 0 THEN <<"tasks", 1>> ELSE EnterHandlers

\* the task loop left after its first iteration
AfterTaskBreaks(idx) == EnterHandlers

AfterTask(idx) == IF idx < Len(play.tasks) THEN <<"tasks", idx + 1>> ELSE EnterHandlers

AfterHandler(idx) == IF idx < Len(play.handlers) THEN <<"handlers", idx + 1>> ELSE <<"done", 0>>

At(job, pos) == [job EXCEPT !.pc = pos[1], !.idx = pos[2]]

Push(result, task_result) == [result EXCEPT !.task_results = Append(@, task_result)]

Active == {i \in 1..Len(jobs) : jobs[i].pc \notin {"queued", "done"}}

\* a pool that hands a host to a thread that is still running one
AllWorkers == 1..executor.forks

\* the threads of the pool that are not inside run_play_on_host
IdleWorkers == (1..executor.forks) \ {jobs[i].worker : i \in Active}

\* the pool's threads are interchangeable: the idle one of least index takes
\* the next host
TakeWorker == CHOOSE w \in IdleWorkers : \A v \in IdleWorkers : w <= v

\* main's loop over the plays of the playbook: the plays still to run, the
\* counters it sums, the exit code once the process has exited, and the
\* results run_play returned for each play so far
MainState(pc, playbook) ==
    [pc |-> pc, playbook |-> playbook, rest |-> playbook,
     total |-> [ok |-> 0, changed |-> 0, failed |-> 0, skipped |-> 0],
     exit_code |-> None, history |-> <<>>]

\* run_play called on its own, outside main
NoMain == MainState("none", <<>>)

\* no function is being evaluated on its own
NoCall == [fn |-> "none"]

Init ==
    /\ inventory \in Inventories
    /\ executor \in Executors
    /\ play \in Plays
    /\ phase = "init"
    /\ jobs = <<>>
    /\ results = <<>>
    /\ main = NoMain
    /\ fcall = NoCall

\* run_play: resolve the targets and hand them to the pool
RunPlay ==
    /\ phase = "init"
    /\ \E hosts \in resolve_hosts(play.hosts) :
          jobs' = [i \in 1..Len(hosts) |-> NewJob(hosts[i])]
    /\ phase' = "running"
    /\ UNCHANGED <<inventory, executor, play, results, main, fcall>>

\* run_play_on_host up to the task loop: look the host up, connect, build
\* the scope
HostMissing(job) == At([job EXCEPT !.result.failed = 1], <<"done", 0>>)

\* a connection failure that is counted but pushes no CONNECT result
ConnectFailedUnrecorded(job) == At([job EXCEPT !.result.failed = 1], <<"done", 0>>)

ConnectFailed(job) ==
    At([job EXCEPT !.result = Push([@ EXCEPT !.failed = 1],
                       TaskResult("CONNECT", job.host,
                                  ModuleResult_failed("connection failed: error"))),
                   !.log = Append(@, LogEntry("connect", 0, <<>>))],
       <<"done", 0>>)

StartHost(i) ==
    /\ phase = "running"
    /\ jobs[i].pc = "queued"
    /\ IdleWorkers # {}
    /\ LET job == [jobs[i] EXCEPT !.worker = TakeWorker]
       IN  IF job.host \notin DOMAIN inventory.hosts
           THEN jobs' = [jobs EXCEPT ![i] = HostMissing(job)]
           ELSE \E conn \in Connect(inventory.hosts[job.host]) :
                  IF ~IsSome(conn)
                  THEN jobs' = [jobs EXCEPT ![i] = ConnectFailed(job)]
                  ELSE jobs' = [jobs EXCEPT ![i] =
                                  At([job EXCEPT !.conn = conn,
                                                 !.host_vars = BuildHostVars(job.host,
                                                                   inventory.hosts[job.host])],
                                     EnterTasks)]
    /\ UNCHANGED <<inventory, executor, play, phase, results, main, fcall>>

\* a skip by tags that is counted but pushes no task result
TagSkippedUnrecorded(job, task) ==
    At([job EXCEPT !.result.skipped = @ + 1], AfterTask(job.idx))

\* the job after one iteration of the task loop that skips the task by tags
TagSkipped(job, task) ==
    At([job EXCEPT !.result = Push([@ EXCEPT !.skipped = @ + 1],
                                  TaskResult(TaskName(task), Unwrap(job.conn),
                                             ModuleResult_ok("skipped (tags)"))),
                   !.log = Append(@, LogEntry("task", job.idx, <<>>))],
       AfterTask(job.idx))

\* a task loop that returns at the first failed task
TaskRanStopsOnFailure(job, o) ==
    At([job EXCEPT !.host_vars = o.vars,
                   !.notified = o.notified,
                   !.result = Push(Classify(@, o.task_result.result), o.task_result),
                   !.log = Append(@, LogEntry("task", job.idx, o.ops))],
       IF o.task_result.result.failed THEN <<"done", 0>> ELSE AfterTask(job.idx))

\* the job after one iteration of the task loop that runs the task with
\* outcome o; the loop goes on whatever the result
TaskRan(job, o) ==
    At([job EXCEPT !.host_vars = o.vars,
                   !.notified = o.notified,
                   !.result = Push(Classify(@, o.task_result.result), o.task_result),
                   !.log = Append(@, LogEntry("task", job.idx, o.ops))],
       AfterTask(job.idx))

\* one iteration of "for task in &play.tasks"
TaskStep(i) ==
    /\ phase = "running"
    /\ jobs[i].pc = "tasks"
    /\ LET job  == jobs[i]
           task == play.tasks[job.idx]
       IN  IF ~should_run_task(task)
           THEN jobs' = [jobs EXCEPT ![i] = TagSkipped(job, task)]
           ELSE \E o \in run_task(Unwrap(job.conn), task, job.host_vars, job.notified) :
                  jobs' = [jobs EXCEPT ![i] = TaskRan(job, o)]
    /\ UNCHANGED <<inventory, executor, play, phase, results, main, fcall>>

\* the notified set run_play_on_host hands to run_task for a handler
HandlerNotified == {}

\* whether the handler loop runs this handler
HandlerFires(job, handler) == IsSome(handler.name) /\ Unwrap(handler.name) \in job.notified

\* the job after a handler has run; what the handler notified is dropped
HandlerRan(job, o) ==
    At([job EXCEPT !.host_vars = o.vars,
                   !.result = Push(Classify(@, o.task_result.result), o.task_result),
                   !.log = Append(@, LogEntry("handler", job.idx, o.ops))],
       AfterHandler(job.idx))

\* one iteration of "for handler in &play.handlers"
HandlerStep(i) ==
    /\ phase = "running"
    /\ jobs[i].pc = "handlers"
    /\ LET job     == jobs[i]
           handler == play.handlers[job.idx]
       IN  IF HandlerFires(job, handler)
           THEN \E o \in run_task(Unwrap(job.conn), handler, job.host_vars, HandlerNotified) :
                  jobs' = [jobs EXCEPT ![i] = HandlerRan(job, o)]
           ELSE jobs' = [jobs EXCEPT ![i] = At(job, AfterHandler(job.idx))]
    /\ UNCHANGED <<inventory, executor, play, phase, results, main, fcall>>

\* a collect that returns as soon as one job has returned
SomeReturned == \E i \in 1..Len(jobs) : jobs[i].pc = "done"

\* par_iter().map(..).collect() has every item mapped
AllReturned == \A i \in 1..Len(jobs) : jobs[i].pc = "done"

\* run_play returns the collected PlayResults once every job has returned
Collect ==
    /\ phase = "running"
    /\ AllReturned
    /\ results' = [i \in 1..Len(jobs) |-> jobs[i].result]
    /\ phase' = "returned"
    /\ UNCHANGED <<inventory, executor, play, jobs, main, fcall>>

Next ==
    \/ RunPlay
    \/ \E i \in 1..Len(jobs) : StartHost(i)
    \/ \E i \in 1..Len(jobs) : TaskStep(i)
    \/ \E i \in 1..Len(jobs) : HandlerStep(i)
    \/ Collect

Spec == Init /\ [][Next]_vars

(***************************************************************************)
(* src/src/main.rs: main, from the loop over the plays to the exit.        *)
(***************************************************************************)
MaxPlays == 2

RECURSIVE SumOf(_, _)
SumOf(play_results, counter) ==
    IF Len(play_results) = 0 THEN 0
    ELSE play_results[1][counter] + SumOf(Tail(play_results), counter)

\* a tally that keeps the counters of the last play only
TallyLastPlay(total, play_results) ==
    [c \in DOMAIN total |-> SumOf(play_results, c)]

\* total_ok += result.ok; ... for every result of the play
Tally(total, play_results) ==
    [c \in DOMAIN total |-> total[c] + SumOf(play_results, c)]

\* the value of play before main has taken the first play
NoPlay == [hosts |-> "", tasks |-> <<>>, handlers |-> <<>>, vars |-> EmptyMap]

PlayFailing == [hosts |-> "all", tasks |-> <<TaskDebug>>, handlers |-> <<>>, vars |-> EmptyMap]

PlaySkipping ==
    [hosts |-> "web1", tasks |-> <<TaskApt>>, handlers |-> <<HandlerRestart>>, vars |-> EmptyMap]

PlayCommand ==
    [hosts |-> "db1", tasks |-> <<TaskCommand>>, handlers |-> <<HandlerRestart>>,
     vars |-> EmptyMap]

PlayLocalhost == [hosts |-> "localhost", tasks |-> <<>>, handlers |-> <<>>, vars |-> EmptyMap]

PlaysMain == {PlayFailing, PlaySkipping, PlayCommand, PlayLocalhost}

Playbooks == UNION {[1..n -> PlaysMain] : n \in 0..MaxPlays}

ExecutorMain ==
    [extra_vars |-> EmptyMap, check_mode |-> FALSE, forks |-> forks(5), tags |-> {},
     skip_tags |-> {}, limit |-> None]

InitMain ==
    /\ inventory \in Inventories
    /\ executor = ExecutorMain
    /\ \E playbook \in Playbooks : main = MainState("loop", playbook)
    /\ play = NoPlay
    /\ phase = "idle"
    /\ jobs = <<>>
    /\ results = <<>>
    /\ fcall = NoCall

\* "for play in &plays": the next play goes to run_play
MainNextPlay ==
    /\ main.pc = "loop"
    /\ phase = "idle"
    /\ Len(main.rest) > 0
    /\ play' = Head(main.rest)
    /\ main' = [main EXCEPT !.rest = Tail(@)]
    /\ phase' = "init"
    /\ jobs' = <<>>
    /\ results' = <<>>
    /\ UNCHANGED <<inventory, executor, fcall>>

\* the loop over the results run_play returned
MainTally ==
    /\ main.pc = "loop"
    /\ phase = "returned"
    /\ main' = [main EXCEPT !.total = Tally(@, results), !.history = Append(@, results)]
    /\ phase' = "idle"
    /\ UNCHANGED <<inventory, executor, play, jobs, results, fcall>>

\* after the recap: exit(1) if total_failed > 0, else return Ok(())
MainExit ==
    /\ main.pc = "loop"
    /\ phase = "idle"
    /\ Len(main.rest) = 0
    /\ main' = [main EXCEPT !.pc = "exited",
                            !.exit_code = Some(IF main.total.failed > 0 THEN 1 ELSE 0)]
    /\ UNCHANGED <<inventory, executor, play, phase, jobs, results, fcall>>

NextMain ==
    \/ MainNextPlay
    \/ RunPlay
    \/ \E i \in 1..Len(jobs) : StartHost(i)
    \/ \E i \in 1..Len(jobs) : TaskStep(i)
    \/ \E i \in 1..Len(jobs) : HandlerStep(i)
    \/ Collect
    \/ MainTally
    \/ MainExit

SpecMain == InitMain /\ [][NextMain]_vars

(***************************************************************************)
(* run_play on an inventory of three hosts, with limits and small pools.   *)
(***************************************************************************)
\* [web] web1 ansible_connection=local / web2 ansible_connection=local
\* [db] db1          [prod:children] web db
Web2 == Host("web2", [k \in {"ansible_connection"} |-> "local"])

InventoryFleet ==
    [hosts  |-> [h \in {"web1", "web2", "db1"} |->
                   CASE h = "web1" -> Web1 [] h = "web2" -> Web2 [] h = "db1" -> Db1],
     groups |-> [g \in {"web", "db", "prod"} |->
                   CASE g = "web" -> Group("web", <<"web1", "web2">>, <<>>, EmptyMap)
                     [] g = "db" -> Group("db", <<"db1">>, <<>>, EmptyMap)
                     [] g = "prod" -> Group("prod", <<>>, <<"web", "db">>, EmptyMap)]]

Limits ==
    {None, Some("!db1"), Some("web:!web1"), Some("web*"), Some("web2,db1: !web*"),
     Some("nosuch")}

ExecutorsPool ==
    {[extra_vars |-> EmptyMap, check_mode |-> FALSE, forks |-> forks(n), tags |-> {},
      skip_tags |-> {}, limit |-> l] : n \in {0, 2}, l \in Limits}

PlaysPool ==
    {[hosts |-> p, tasks |-> <<TaskCommand>>, handlers |-> <<HandlerRestart>>,
      vars |-> EmptyMap] : p \in {"all", "prod", "web", "web1,db1", "web1, web1"}}

InitPool ==
    /\ inventory = InventoryFleet
    /\ executor \in ExecutorsPool
    /\ play \in PlaysPool
    /\ phase = "init"
    /\ jobs = <<>>
    /\ results = <<>>
    /\ main = NoMain
    /\ fcall = NoCall

SpecPool == InitPool /\ [][Next]_vars

(***************************************************************************)
(* What the claims speak of, read off a job and its log.                   *)
(***************************************************************************)
Connected(job) == IsSome(job.conn)

Finished(job) == job.pc = "done" /\ Connected(job)

Entries(job) == 1..Len(job.log)

TaskEntries(job) == {k \in Entries(job) : job.log[k].kind = "task"}

HandlerEntries(job) == {k \in Entries(job) : job.log[k].kind = "handler"}

\* the entries made by the handler declared at position h
HandlerRuns(job, h) == {k \in HandlerEntries(job) : job.log[k].idx = h}

\* the entries made by handlers declared under the name H
NameRuns(job, H) == {k \in HandlerEntries(job) : play.handlers[job.log[k].idx].name = Some(H)}

Notifies(task, H) == IsSome(task.notify) /\ SeqContains(Unwrap(task.notify), H)

\* the entries of tasks that notify H and returned changed=true
ChangedNotifiers(job, H) ==
    {k \in TaskEntries(job) : /\ job.result.task_results[k].result.changed
                              /\ Notifies(play.tasks[job.log[k].idx], H)}

HandlerNames == {Unwrap(play.handlers[h].name) : h \in {x \in 1..Len(play.handlers) :
                                                          IsSome(play.handlers[x].name)}}

WhenFalse(task, vs) == IsSome(task.when) /\ ~eval_when(render(Unwrap(task.when), vs), vs)

\* job stands before a task or a handler that run_task is about to be called for
AboutToRun(job) ==
    \/ job.pc = "tasks" /\ should_run_task(play.tasks[job.idx])
    \/ job.pc = "handlers" /\ HandlerFires(job, play.handlers[job.idx])

CurrentTask(job) == IF job.pc = "tasks" THEN play.tasks[job.idx] ELSE play.handlers[job.idx]

LastResult(job) == job.result.task_results[Len(job.result.task_results)].result

LastOps(job) == job.log[Len(job.log)].ops

\* C1 (as amended): every declared handler runs at most once per host; it
\* runs only if some task notifying its name returned changed=true, and once
\* the host is finished it has run if some task did; what a handler itself
\* notifies makes no handler run.
C1_HandlerOncePerDeclaration ==
    \A i \in 1..Len(jobs) : \A h \in 1..Len(play.handlers) :
        LET job     == jobs[i]
            handler == play.handlers[h]
        IN  /\ Cardinality(HandlerRuns(job, h)) <= 1
            /\ HandlerRuns(job, h) # {} =>
                  IsSome(handler.name) /\ ChangedNotifiers(job, Unwrap(handler.name)) # {}
            /\ (Finished(job) /\ IsSome(handler.name)
                  /\ ChangedNotifiers(job, Unwrap(handler.name)) # {}) => HandlerRuns(job, h) # {}

\* C1 as stated: a handler name H is invoked iff a task notifying H returned
\* changed=true, and the name H is invoked at most once per host.
C1_HandlerOncePerName ==
    \A i \in 1..Len(jobs) : \A H \in HandlerNames :
        LET job == jobs[i]
        IN  /\ Cardinality(NameRuns(job, H)) <= 1
            /\ NameRuns(job, H) # {} => ChangedNotifiers(job, H) # {}
            /\ (Finished(job) /\ ChangedNotifiers(job, H) # {}) => NameRuns(job, H) # {}

\* two changed tasks notified restart, restart ran once and returned changed
\* with notify: [reload], and reload, notified by no task, did not run
C1_Witness ==
    \E i \in 1..Len(jobs) :
        LET job == jobs[i]
        IN  /\ Finished(job)
            /\ Cardinality(ChangedNotifiers(job, "restart")) >= 2
            /\ ChangedNotifiers(job, "reload") = {}
            /\ \E h \in 1..Len(play.handlers) :
                  /\ play.handlers[h].name = Some("restart")
                  /\ Notifies(play.handlers[h], "reload")
                  /\ \E k \in HandlerRuns(job, h) : job.result.task_results[k].result.changed
            /\ \E h \in 1..Len(play.handlers) :
                  play.handlers[h].name = Some("reload") /\ HandlerRuns(job, h) = {}

\* C2: on one host the tasks are processed in play order without gaps, a
\* handler runs only after every task of the list was processed, and the
\* handlers that run do so in declaration order.
C2_TasksThenHandlersInOrder ==
    \A i \in 1..Len(jobs) :
        LET job == jobs[i]
        IN  /\ \A k \in TaskEntries(job) :
                  job.log[k].idx = Cardinality({j \in TaskEntries(job) : j <= k})
            /\ \A k \in HandlerEntries(job) :
                  /\ Cardinality({j \in TaskEntries(job) : j < k}) = Len(play.tasks)
                  /\ \A j \in TaskEntries(job) : j < k
            /\ \A a, b \in HandlerEntries(job) : a < b => job.log[a].idx < job.log[b].idx

C2_Witness ==
    \E i \in 1..Len(jobs) :
        /\ Finished(jobs[i])
        /\ Cardinality(TaskEntries(jobs[i])) >= 2
        /\ Cardinality(HandlerEntries(jobs[i])) >= 2

\* C3: in every PlayResult run_play_on_host returns, ok + changed + failed +
\* skipped is the number of entries of task_results.
C3_CountersSumToResults ==
    \A i \in 1..Len(jobs) :
        jobs[i].pc = "done" =>
            jobs[i].result.ok + jobs[i].result.changed + jobs[i].result.failed
                + jobs[i].result.skipped = Len(jobs[i].result.task_results)

TasksPassingTags == {t \in 1..Len(play.tasks) : should_run_task(play.tasks[t])}

HandlersFired(job) == {h \in 1..Len(play.handlers) : HandlerFires(job, play.handlers[h])}

\* C4 (as amended): for a connected host, task_results has one entry per
\* task of the play, whether it passed the tag filter or was skipped by it,
\* plus one per handler that fired.
C4_OneResultPerTaskAndFiredHandler ==
    \A i \in 1..Len(jobs) :
        Finished(jobs[i]) =>
            Len(jobs[i].result.task_results)
                = Len(play.tasks) + Cardinality(HandlersFired(jobs[i]))

\* C4 as stated: the entries are the tasks that passed the tag filter plus
\* the handlers that fired.
C4_OneResultPerTaskPassingTags ==
    \A i \in 1..Len(jobs) :
        Finished(jobs[i]) =>
            Len(jobs[i].result.task_results)
                = Cardinality(TasksPassingTags) + Cardinality(HandlersFired(jobs[i]))

\* a finished host with a task skipped by tags, a task that ran and a
\* handler that fired
C4_Witness ==
    \E i \in 1..Len(jobs) :
        /\ Finished(jobs[i])
        /\ TasksPassingTags # {}
        /\ TasksPassingTags # 1..Len(play.tasks)
        /\ HandlersFired(jobs[i]) # {}

\* the step of job i that calls run_task for the task or handler it stands at
RunsTask(i) == AboutToRun(jobs[i]) /\ jobs'[i] # jobs[i]

\* C5: a step that calls run_task for a task (or handler) whose when
\* evaluates to false adds one result with failed=false, changed=false and a
\* msg beginning with "skipped", issues nothing on the connection, and
\* leaves the scope and the notified set as they were.
C5_WhenFalseSkipsModule ==
    [][\A i \in 1..Len(jobs) :
        (RunsTask(i) /\ WhenFalse(CurrentTask(jobs[i]), jobs[i].host_vars)) =>
            /\ Len(jobs'[i].result.task_results) = Len(jobs[i].result.task_results) + 1
            /\ ~LastResult(jobs'[i]).failed
            /\ ~LastResult(jobs'[i]).changed
            /\ StartsWith(LastResult(jobs'[i]).msg, "skipped")
            /\ LastOps(jobs'[i]) = <<>>
            /\ jobs'[i].host_vars = jobs[i].host_vars
            /\ jobs'[i].notified = jobs[i].notified]_vars

\* a task with a when condition, an apt module and a notify list was skipped
\* by its condition and the handlers it names did not run
C5_Witness ==
    \E i \in 1..Len(jobs) :
        LET job == jobs[i]
        IN  /\ Finished(job)
            /\ Len(play.handlers) > 0
            /\ HandlerEntries(job) = {}
            /\ \E k \in TaskEntries(job) :
                  /\ IsSome(play.tasks[job.log[k].idx].when)
                  /\ "apt" \in DOMAIN play.tasks[job.log[k].idx].module
                  /\ job.result.task_results[k].result.msg = "skipped"

\* a handler was skipped by its when condition
C5_WitnessHandler ==
    \E i \in 1..Len(jobs) :
        \E k \in HandlerEntries(jobs[i]) :
            /\ IsSome(play.handlers[jobs[i].log[k].idx].when)
            /\ jobs[i].result.task_results[k].result.msg = "skipped"

RegisteredKeys(R) ==
    {R \o ".stdout", R \o ".stderr", R \o ".rc", R \o ".changed", R \o ".failed"}

\* C6: after a step that calls run_task for a task with register=R whose
\* when is absent or true, the scope holds R.stdout, R.stderr, R.rc,
\* R.changed and R.failed with the stringified fields of the task's result.
C6_RegisterAfterEveryOutcome ==
    [][\A i \in 1..Len(jobs) :
        (/\ RunsTask(i)
         /\ ~WhenFalse(CurrentTask(jobs[i]), jobs[i].host_vars)
         /\ IsSome(CurrentTask(jobs[i]).register)) =>
            LET R  == Unwrap(CurrentTask(jobs[i]).register)
                r  == LastResult(jobs'[i])
                vs == jobs'[i].host_vars
            IN  /\ RegisteredKeys(R) \subseteq DOMAIN vs
                /\ vs[R \o ".stdout"] = r.stdout
                /\ vs[R \o ".stderr"] = r.stderr
                /\ vs[R \o ".rc"] = IntToString(r.rc)
                /\ vs[R \o ".changed"] = BoolToString(r.changed)
                /\ vs[R \o ".failed"] = BoolToString(r.failed)]_vars

\* C7: at every point of the task loop a key supplied as an extra var holds
\* the extra-var value, whatever was registered since, and a key supplied as
\* a (string) play var and not as an extra var holds the play var's value,
\* whatever the host var of that name.
C7_ExtraVarsOutrankRegistered ==
    \A i \in 1..Len(jobs) :
        Connected(jobs[i]) =>
            /\ \A k \in DOMAIN executor.extra_vars :
                  jobs[i].host_vars[k] = executor.extra_vars[k]
            /\ \A k \in PlayVarStrings \ DOMAIN executor.extra_vars :
                  jobs[i].host_vars[k] = play.vars[k].s

\* C8: the scope of a connected host holds every variable of every group
\* that contains the host directly or through child groups.
C8_ScopeHoldsGroupVars ==
    \A i \in 1..Len(jobs) :
        Connected(jobs[i]) =>
            \A g \in get_host_groups(jobs[i].host) :
                \A k \in DOMAIN inventory.groups[g].vars : k \in DOMAIN jobs[i].host_vars

FailedTaskEntries(job) == {k \in TaskEntries(job) : job.result.task_results[k].result.failed}

\* C9: on a host where a task returned failed=true, every task after it is
\* still processed (the finished host has an entry for every task of the
\* play) and every handler notified on the host has run.
C9_FailureDoesNotHaltLoop ==
    \A i \in 1..Len(jobs) :
        LET job == jobs[i]
        IN  /\ \A k \in FailedTaskEntries(job) :
                  job.pc = "tasks" => job.idx > job.log[k].idx
            /\ (Finished(job) /\ FailedTaskEntries(job) # {}) =>
                  /\ {job.log[k].idx : k \in TaskEntries(job)} = 1..Len(play.tasks)
                  /\ \A h \in HandlersFired(job) : HandlerRuns(job, h) # {}

\* the first task failed, a later task ran and returned changed, and the
\* handler it notified ran
C9_Witness ==
    \E i \in 1..Len(jobs) :
        LET job == jobs[i]
        IN  /\ Finished(job)
            /\ \E k \in FailedTaskEntries(job) : job.log[k].idx = 1
            /\ \E k \in TaskEntries(job) :
                  job.log[k].idx = 2 /\ job.result.task_results[k].result.changed
            /\ HandlerEntries(job) # {}

\* C10 (as amended): in check mode nothing is issued on a connection, the
\* changed counter of every host is zero, and every task or handler that
\* run_task is called for, whose when is absent or true and which names a
\* known module, reports ok with msg "check mode".
C10_CheckModeCallsNoModule ==
    [][\A i \in 1..Len(jobs) :
        (executor.check_mode /\ jobs'[i] # jobs[i]) =>
            /\ \A k \in 1..Len(jobs'[i].log) : jobs'[i].log[k].ops = <<>>
            /\ jobs'[i].result.changed = 0
            /\ (/\ AboutToRun(jobs[i])
                /\ ~WhenFalse(CurrentTask(jobs[i]), jobs[i].host_vars)
                /\ extract_module(CurrentTask(jobs[i]), jobs[i].host_vars) # {}) =>
                  LastResult(jobs'[i]) = ModuleResult_ok("check mode")]_vars

\* C10 as stated: in check mode nothing is issued on a connection, every
\* task reports ok with msg "check mode", and the changed counter is zero.
C10_CheckModeEveryTaskOk ==
    \A i \in 1..Len(jobs) :
        executor.check_mode =>
            /\ jobs[i].result.changed = 0
            /\ \A k \in TaskEntries(jobs[i]) \cup HandlerEntries(jobs[i]) :
                  /\ jobs[i].log[k].ops = <<>>
                  /\ jobs[i].result.task_results[k].result = ModuleResult_ok("check mode")

\* in check mode a host finished a play in which an apt task with a notify
\* list reported "check mode"
C10_Witness ==
    \E i \in 1..Len(jobs) :
        LET job == jobs[i]
        IN  /\ executor.check_mode
            /\ Finished(job)
            /\ \E k \in TaskEntries(job) :
                  /\ "apt" \in DOMAIN play.tasks[job.log[k].idx].module
                  /\ IsSome(play.tasks[job.log[k].idx].notify)
                  /\ job.result.task_results[k].result.msg = "check mode"

\* the failed counters of all hosts of all plays that were run
RECURSIVE FailedInHistory(_)
FailedInHistory(history) ==
    IF Len(history) = 0 THEN 0
    ELSE SumOf(history[1], "failed") + FailedInHistory(Tail(history))

\* C11: the process has no exit code before every play of the playbook has
\* been run; when it exits, every play has been run and the exit code is 1
\* if the failed counters of all hosts of all plays sum to a positive
\* number, and 0 otherwise.
C11_ExitCodeTellsFailure ==
    /\ IsSome(main.exit_code) <=> main.pc = "exited"
    /\ main.pc = "exited" =>
          /\ Len(main.history) = Len(main.playbook)
          /\ Len(main.rest) = 0
          /\ main.exit_code = Some(IF FailedInHistory(main.history) > 0 THEN 1 ELSE 0)

\* the process exited with 1 after a first play with a failed host and a
\* last play without any
C11_Witness ==
    /\ main.pc = "exited"
    /\ main.exit_code = Some(1)
    /\ Len(main.history) = 2
    /\ SumOf(main.history[1], "failed") > 0
    /\ Len(main.history[2]) > 0
    /\ SumOf(main.history[2], "failed") = 0

TagsOf(task) == {task.tags[k] : k \in 1..Len(task.tags)}

\* the tag filter as the claim words it
SkippedByTags(task) ==
    \/ TagsOf(task) \cap executor.skip_tags # {}
    \/ /\ executor.tags # {}
       /\ TagsOf(task) \cap executor.tags = {}
       /\ "always" \notin TagsOf(task)

\* C12: an iteration of the task loop skips the task exactly if it carries
\* a tag of skip_tags, or tags is non-empty and the task carries neither a
\* selected tag nor always.  A skipped task gets the result ok("skipped
\* (tags)"), adds one to skipped and to no other counter, issues nothing on
\* the connection and leaves the scope and the notified set as they were; a
\* task that is not skipped goes to run_task and leaves skipped as it was.
C12_TagFilter ==
    [][\A i \in 1..Len(jobs) :
        (jobs[i].pc = "tasks" /\ jobs'[i] # jobs[i]) =>
            LET task   == play.tasks[jobs[i].idx]
                before == jobs[i].result
                after  == jobs'[i].result
            IN  /\ Len(after.task_results) = Len(before.task_results) + 1
                /\ IF SkippedByTags(task)
                   THEN /\ LastResult(jobs'[i]) = ModuleResult_ok("skipped (tags)")
                        /\ after.skipped = before.skipped + 1
                        /\ after.ok = before.ok
                        /\ after.changed = before.changed
                        /\ after.failed = before.failed
                        /\ LastOps(jobs'[i]) = <<>>
                        /\ jobs'[i].host_vars = jobs[i].host_vars
                        /\ jobs'[i].notified = jobs[i].notified
                   ELSE /\ LastResult(jobs'[i]).msg # "skipped (tags)"
                        /\ after.skipped = before.skipped
                        /\ after.ok + after.changed + after.failed
                             = before.ok + before.changed + before.failed + 1]_vars

\* with tags selected and a tag skipped, a task tagged always and with the
\* skipped tag was skipped, and a task tagged always alone ran
C12_Witness ==
    \E i \in 1..Len(jobs) :
        LET job == jobs[i]
        IN  /\ executor.tags # {}
            /\ executor.skip_tags # {}
            /\ \E k \in TaskEntries(job) :
                  /\ "always" \in TagsOf(play.tasks[job.log[k].idx])
                  /\ TagsOf(play.tasks[job.log[k].idx]) \cap executor.skip_tags # {}
                  /\ job.result.task_results[k].result.msg = "skipped (tags)"
            /\ \E k \in TaskEntries(job) :
                  /\ TagsOf(play.tasks[job.log[k].idx]) = {"always"}
                  /\ job.result.task_results[k].result.msg # "skipped (tags)"

(***************************************************************************)
(* Inventory::get_group_hosts, one call of collect_hosts_recursive at a    *)
(* time, on inventories whose children relation may be cyclic.  fcall      *)
(* holds the two &mut arguments and the call stack: a frame is the group   *)
(* of one activation, whether it is at its entry or in its loop over the   *)
(* children, and the index of the next child.                              *)
(***************************************************************************)
MaxChildren == 2
MaxDepth == 6

ChildLists == UNION {[1..n -> {"a", "b", "c"}] : n \in 0..MaxChildren}

\* [a] h1 h2   [b] h2 h3   [c] h1, with c its own child and a child that
\* is not a group; the children of a and b are any groups
InventoriesNested ==
    {[hosts  |-> [h \in {"h1", "h2", "h3"} |-> Host(h, EmptyMap)],
      groups |-> [g \in {"a", "b", "c"} |->
                    CASE g = "a" -> Group("a", <<"h1", "h2">>, ca, EmptyMap)
                      [] g = "b" -> Group("b", <<"h2", "h3">>, cb, EmptyMap)
                      [] g = "c" -> Group("c", <<"h1">>, <<"c", "nosuch">>, EmptyMap)]] :
       ca \in ChildLists, cb \in ChildLists}

Frame(group_name) == [group_name |-> group_name, pc |-> "enter", next |-> 1]

InitGroupHosts ==
    /\ inventory \in InventoriesNested
    /\ executor = ExecutorMain
    /\ play = NoPlay
    /\ phase = "idle"
    /\ jobs = <<>>
    /\ results = <<>>
    /\ main = NoMain
    /\ \E group_name \in {"a", "b", "c", "nosuch"} :
          fcall = [fn |-> "get_group_hosts", group_name |-> group_name, hosts |-> <<>>,
                   visited |-> {},
                   stack |-> IF group_name \in DOMAIN inventory.groups
                             THEN <<Frame(group_name)>> ELSE <<>>]

Pop(stack) == SubSeq(stack, 1, Len(stack) - 1)

\* a walk that never finds a group visited
NeverVisited(group_name, visited) == FALSE

Visited(group_name, visited) == group_name \in visited

\* entry of collect_hosts_recursive up to its first recursive call
CollectEnter ==
    /\ fcall.fn = "get_group_hosts"
    /\ Len(fcall.stack) > 0
    /\ LET top == fcall.stack[Len(fcall.stack)]
           g   == top.group_name
       IN  /\ top.pc = "enter"
           /\ fcall' =
                 IF Visited(g, fcall.visited)
                 THEN [fcall EXCEPT !.stack = Pop(@)]
                 ELSE IF g \in DOMAIN inventory.groups
                 THEN [fcall EXCEPT !.visited = @ \cup {g},
                                    !.hosts = PushNew(@, inventory.groups[g].hosts),
                                    !.stack[Len(fcall.stack)].pc = "children"]
                 ELSE [fcall EXCEPT !.visited = @ \cup {g}, !.stack = Pop(@)]
    /\ UNCHANGED <<inventory, executor, play, phase, jobs, results, main>>

\* for child in &group.children: the call on the next child
CollectChild ==
    /\ fcall.fn = "get_group_hosts"
    /\ Len(fcall.stack) > 0
    /\ Len(fcall.stack) < MaxDepth
    /\ LET top      == fcall.stack[Len(fcall.stack)]
           children == inventory.groups[top.group_name].children
       IN  /\ top.pc = "children"
           /\ top.next <= Len(children)
           /\ fcall' = [fcall EXCEPT !.stack =
                          Append([@ EXCEPT ![Len(@)].next = top.next + 1],
                                 Frame(children[top.next]))]
    /\ UNCHANGED <<inventory, executor, play, phase, jobs, results, main>>

\* the loop over the children is over: return to the caller
CollectReturn ==
    /\ fcall.fn = "get_group_hosts"
    /\ Len(fcall.stack) > 0
    /\ LET top == fcall.stack[Len(fcall.stack)]
       IN  /\ top.pc = "children"
           /\ top.next > Len(inventory.groups[top.group_name].children)
           /\ fcall' = [fcall EXCEPT !.stack = Pop(@)]
    /\ UNCHANGED <<inventory, executor, play, phase, jobs, results, main>>

NextGroupHosts == CollectEnter \/ CollectChild \/ CollectReturn

\* a call that can take a step takes it
SpecGroupHosts == InitGroupHosts /\ [][NextGroupHosts]_vars /\ WF_vars(NextGroupHosts)

\* C15: every call of get_group_hosts returns, whatever the children
\* relation; no group is entered twice, so the stack never holds more
\* activations than there are names to visit; the list under construction
\* and the list returned hold each host at most once.
C15_GroupHostsTerminates ==
    /\ <>(fcall.stack = <<>>)
    /\ [](\A i, j \in 1..Len(fcall.hosts) : i # j => fcall.hosts[i] # fcall.hosts[j])
    /\ [](Len(fcall.stack) <= Cardinality(DOMAIN inventory.groups) + 2)
    /\ [](fcall.stack = <<>> => fcall.hosts = get_group_hosts(fcall.group_name))

\* a call on a has returned the hosts of a, b and c although a and b are
\* each other's children and a is its own
C15_Witness ==
    /\ fcall.fn = "get_group_hosts"
    /\ fcall.group_name = "a"
    /\ fcall.stack = <<>>
    /\ inventory.groups["a"].children = <<"a", "b">>
    /\ inventory.groups["b"].children = <<"a", "c">>
    /\ fcall.hosts = <<"h1", "h2", "h3">>
    /\ fcall.visited = {"a", "b", "c", "nosuch"}

(***************************************************************************)
(* Single calls of get_host_vars, eval_when, render and run_module: fcall  *)
(* holds the arguments of the call and, once it has returned, its result.  *)
(***************************************************************************)
\* [web] web1 ansible_connection=local http_port=8080   [db] db1
\* [prod:children] web     [prod:vars] tier=parent http_port=80 env=prod
\* [web:vars] tier=child http_port=81
InventoryLayered ==
    [hosts  |-> [h \in {"web1", "db1"} |->
                   IF h = "web1"
                   THEN Host("web1", [k \in {"ansible_connection", "http_port"} |->
                                        IF k = "http_port" THEN "8080" ELSE "local"])
                   ELSE Db1],
     groups |-> [g \in {"web", "db", "prod"} |->
                   CASE g = "web" -> Group("web", <<"web1">>, <<>>,
                                           [k \in {"tier", "http_port"} |->
                                              IF k = "tier" THEN "child" ELSE "81"])
                     [] g = "db" -> Group("db", <<"db1">>, <<>>, EmptyMap)
                     [] g = "prod" -> Group("prod", <<>>, <<"web">>,
                                            [k \in {"tier", "http_port", "env"} |->
                                               CASE k = "tier" -> "parent"
                                                 [] k = "http_port" -> "80"
                                                 [] k = "env" -> "prod"])]]

WhenConditions ==
    {"env == 'prod'", "not env == 'prod'", "env != 'prod'", "not env != 'prod'", "debug",
     "not debug", "not not debug", "env is defined", "not env is defined"}

WhenScopes ==
    {EmptyMap, [k \in {"env"} |-> "prod"], [k \in {"env"} |-> "staging"],
     [k \in {"env", "debug"} |-> IF k = "env" THEN "prod" ELSE "true"],
     [k \in {"debug"} |-> "false"]}

Templates ==
    {"{{ x }}", "{# c #}{{ x | upper }}!", "{% if x %}a{% else %}{{ y }}{% endif %}",
     "{% for i in items %}{{ i }};{% endfor %}",
     "{% for i in items %}{% if i %}{{ i }}{% endif %}{% endfor %}",
     "{% if x %}{% if y %}c{% endif %}a{% else %}b{% endif %}",
     "{{ x }} {% if x %}a{% else %}b{% endif %}",
     "{% for i in items %}{{ i }};{% endfor %}{% if x %}a{% else %}b{% endif %}",
     "{% for a in xs %}{% for b in ys %}{{ a }}{{ b }};{% endfor %}{% endfor %}"}

RenderScopes ==
    {EmptyMap, [k \in {"x"} |-> "v"], [k \in {"items"} |-> "a,b"],
     [k \in {"x", "items"} |-> IF k = "x" THEN "v" ELSE "a,b"],
     [k \in {"xs", "ys"} |-> IF k = "xs" THEN "1,2" ELSE "p,q"]}

ServiceArgs ==
    {[k \in {"name", "state"} |-> IF k = "name" THEN "nginx" ELSE st] :
       st \in {"started", "stopped", "restarted", "reloaded"}}
      \cup {[k \in {"name"} |-> "nginx"], [k \in {"state"} |-> "started"]}

\* src/src/inventory/mod.rs: expand_host_pattern and the line of from_ini
\* that reaches it.  The characters from 0 to z in the order of their codes,
\* but for the grave accent between _ and a, which a string of this language
\* cannot hold: a range of characters in IniLines has both its ends in this
\* table and on the same side of that gap.
Ascii == "0123456789:;<=>?@ABCDEFGHIJKLMNOPQRSTUVWXYZ[\\]^_abcdefghijklmnopqrstuvwxyz"

RECURSIVE DigitsValue(_, _)
DigitsValue(s, acc) ==
    IF Len(s) = 0 THEN acc ELSE DigitsValue(SliceFrom(s, 1), 10 * acc + Find("0123456789", CharAt(s, 0)))

RECURSIVE StripZeros(_)
StripZeros(s) == IF Len(s) > 1 /\ CharAt(s, 0) = "0" THEN StripZeros(SliceFrom(s, 1)) ELSE s

\* whether the digits, read without their leading zeros, go beyond u32::MAX,
\* 4294967295, compared in two halves
OverflowsU32(digits) ==
    LET d == StripZeros(digits)
    IN  \/ Len(d) > 10
        \/ /\ Len(d) = 10
           /\ LET hi == DigitsValue(Slice(d, 0, 5), 0)
                  lo == DigitsValue(SliceFrom(d, 5), 0)
              IN  hi > 42949 \/ (hi = 42949 /\ lo > 67295)

\* str::parse::<u32>: an optional + and at least one digit, within 32 bits
ParseU32(s) ==
    LET digits == IF StartsWith(s, "+") THEN SliceFrom(s, 1) ELSE s
    IN  IF Len(digits) = 0 \/ \E i \in 0..(Len(digits) - 1) : Find("0123456789", CharAt(digits, i)) < 0
        THEN None
        ELSE IF OverflowsU32(digits) THEN None
        ELSE Some(DigitsValue(StripZeros(digits), 0))

\* format!("{:0width$}", n)
RECURSIVE ZeroPad(_, _)
ZeroPad(text, width) == IF Len(text) >= width THEN text ELSE ZeroPad("0" \o text, width)

\* the outcome of a call: the names it returns, or the panic it ends in
Names(hosts) == [panic |-> FALSE, hosts |-> hosts]

Panic == [panic |-> TRUE, hosts |-> <<>>]

expand_host_pattern(pattern) ==
    LET start == Find(pattern, "[")
        end   == Find(pattern, "]")
    IN  IF start < 0 \/ end < 0 THEN Names(<<pattern>>)
        ELSE IF start + 1 > end THEN Panic
        ELSE
        LET prefix     == Slice(pattern, 0, start)
            suffix     == SliceFrom(pattern, end + 1)
            range_spec == SplitOnce(Slice(pattern, start + 1, end), ":")
        IN  IF ~IsSome(range_spec) THEN Names(<<pattern>>)
            ELSE
            LET from == range_spec[1][1]
                to   == range_spec[1][2]
            IN  IF IsSome(ParseU32(from)) /\ IsSome(ParseU32(to))
                THEN LET a == Unwrap(ParseU32(from))
                         b == Unwrap(ParseU32(to))
                     IN  Names([i \in 1..(IF b >= a THEN b - a + 1 ELSE 0) |->
                                  prefix \o ZeroPad(IntToString(a + i - 1), Len(from)) \o suffix])
                ELSE IF Len(from) = 1 /\ Len(to) = 1
                THEN LET a == Find(Ascii, from)
                         b == Find(Ascii, to)
                     IN  Names([i \in 1..(IF b >= a THEN b - a + 1 ELSE 0) |->
                                  prefix \o CharAt(Ascii, a + i - 1) \o suffix])
                ELSE Names(<<pattern>>)

\* from_ini on a text of one line: the host names the line adds, if it is
\* not skipped and is no section header
from_ini_line(content) ==
    LET line == Trim(content)
    IN  IF line = "" \/ StartsWith(line, "#") \/ StartsWith(line, ";") THEN Names(<<>>)
        ELSE IF StartsWith(line, "[") /\ EndsWith(line, "]") THEN Names(<<>>)
        ELSE expand_host_pattern(Split(line, " ")[1])

IniLines ==
    {"web1", "# web[1:3]", "[web]", "web[1:3] ansible_user=root", "web[08:10].example.org",
     "db[a:c]", "db[c:a]", "web[1:x]", "web[1-3]", "web[", "web]", "web[]", "web[:]",
     "web[1:2][3:4]", "web[1:99999999999]", "web[+1:2]", "web]1[", "][", "a]b[1:2]", "[1:2]x"}

\* the arguments of a lineinfile task, and what the file can hold
LineArgs ==
    {[k \in {"path", "line"} |-> IF k = "path" THEN "/etc/hosts" ELSE "b"],
     [k \in {"path", "line", "state"} |->
        CASE k = "path" -> "/etc/hosts" [] k = "line" -> "b" [] k = "state" -> "absent"],
     [k \in {"path", "line", "state"} |->
        CASE k = "path" -> "/etc/hosts" [] k = "line" -> "b" [] k = "state" -> "present"],
     [k \in {"path", "regexp", "state"} |->
        CASE k = "path" -> "/etc/hosts" [] k = "regexp" -> "^b" [] k = "state" -> "absent"]}

HostFiles == {None, Some(""), Some("a\n"), Some("a\nb\n"), Some("b"), Some("a\nb\nb\nc\n")}

\* the arguments of a shell or raw task: cmd alone, with creates, with removes
GatedArgs ==
    {[k \in {"cmd"} |-> "make install"],
     [k \in {"cmd", "creates"} |-> IF k = "cmd" THEN "make install" ELSE "/opt/app"],
     [k \in {"cmd", "removes"} |-> IF k = "cmd" THEN "make uninstall" ELSE "/opt/app"]}

\* src/src/modules/file.rs: one command of a module and the answer it got
Step(command, answer) == [command |-> command, answer |-> answer]

\* the optional chmod, chown or chgrp of ensure_file: its step, if it is
\* made, under each answer of the connection
AttrSteps(verb, value, path) ==
    IF IsSome(value)
    THEN {<<Step(verb \o " " \o Unwrap(value) \o " " \o path, x)>> : x \in ExecResults}
    ELSE {<<>>}

\* modules::file::ensure_file: its result and the steps it made
ensure_file(path, mode, owner, group) ==
    UNION {
      LET exists == t.ok /\ t.exit_code = 0
          test   == Step("test -f " \o path, t)
      IN  IF ~exists
          THEN {[result |-> ModuleResult_failed("path does not exist: " \o path),
                 steps |-> <<test>>]}
          ELSE {LET attrs   == m \o o \o g
                    changed == \E k \in 1..Len(attrs) : attrs[k].answer.ok
                IN  [result |-> IF changed THEN ModuleResult_changed("file attributes updated")
                                ELSE ModuleResult_ok("file unchanged"),
                     steps |-> <<test>> \o attrs] :
                  m \in AttrSteps("chmod", mode, path),
                  o \in AttrSteps("chown", owner, path),
                  g \in AttrSteps("chgrp", group, path)}
      : t \in ExecResults}

InitCalls ==
    /\ inventory = InventoryLayered
    /\ executor = ExecutorMain
    /\ play = NoPlay
    /\ phase = "idle"
    /\ jobs = <<>>
    /\ results = <<>>
    /\ main = NoMain
    /\ \/ \E host_name \in {"web1", "db1", "nosuch"} :
             fcall = [fn |-> "get_host_vars", pc |-> "called", host_name |-> host_name]
       \/ \E condition \in WhenConditions, vs \in WhenScopes :
             fcall = [fn |-> "eval_when", pc |-> "called", condition |-> condition, vars |-> vs]
       \/ \E template \in Templates, vs \in RenderScopes :
             fcall = [fn |-> "render", pc |-> "called", template |-> template, vars |-> vs]
       \/ \E args \in ServiceArgs :
             fcall = [fn |-> "run_module", pc |-> "called", module |-> "service",
                      args |-> args, host_paths |-> {}, runs |-> <<>>]
       \/ \E module \in {"shell", "raw"}, args \in GatedArgs, host_paths \in SUBSET {"/opt/app"} :
             fcall = [fn |-> "run_module", pc |-> "called", module |-> module,
                      args |-> args, host_paths |-> host_paths, runs |-> <<>>]
       \/ \E content \in IniLines :
             fcall = [fn |-> "from_ini", pc |-> "called", content |-> content]
       \/ \E args \in LineArgs, file \in HostFiles :
             fcall = [fn |-> "run_lineinfile", pc |-> "called", args |-> args, file |-> file]
       \/ \E mode \in {None, Some("0644")}, owner \in {None, Some("root")} :
             fcall = [fn |-> "ensure_file", pc |-> "called", path |-> "/etc/motd",
                      mode |-> mode, owner |-> owner, group |-> None]

Returned(result) == [fn |-> fcall.fn, pc |-> "returned", args |-> fcall, result |-> result]

CallGetHostVars ==
    /\ fcall.fn = "get_host_vars" /\ fcall.pc = "called"
    /\ \E vs \in get_host_vars(fcall.host_name) : fcall' = Returned(vs)
    /\ UNCHANGED <<inventory, executor, play, phase, jobs, results, main>>

CallEvalWhen ==
    /\ fcall.fn = "eval_when" /\ fcall.pc = "called"
    /\ fcall' = Returned(eval_when(fcall.condition, fcall.vars))
    /\ UNCHANGED <<inventory, executor, play, phase, jobs, results, main>>

CallRender ==
    /\ fcall.fn = "render" /\ fcall.pc = "called"
    /\ fcall' = Returned(render(fcall.template, fcall.vars))
    /\ UNCHANGED <<inventory, executor, play, phase, jobs, results, main>>

\* the module invoked once, and once more with the same arguments
CallModule ==
    /\ fcall.fn = "run_module" /\ fcall.pc = "called"
    /\ Len(fcall.runs) < 2
    /\ \E o \in run_module(fcall.module, fcall.args, EmptyMap) :
          fcall' = [fcall EXCEPT !.runs = Append(@, o)]
    /\ UNCHANGED <<inventory, executor, play, phase, jobs, results, main>>

CallLineinfile ==
    /\ fcall.fn = "run_lineinfile" /\ fcall.pc = "called"
    /\ \E o \in run_lineinfile(fcall.args, fcall.file) : fcall' = Returned(o)
    /\ UNCHANGED <<inventory, executor, play, phase, jobs, results, main>>

CallFromIni ==
    /\ fcall.fn = "from_ini" /\ fcall.pc = "called"
    /\ fcall' = Returned(from_ini_line(fcall.content))
    /\ UNCHANGED <<inventory, executor, play, phase, jobs, results, main>>

CallEnsureFile ==
    /\ fcall.fn = "ensure_file" /\ fcall.pc = "called"
    /\ \E o \in ensure_file(fcall.path, fcall.mode, fcall.owner, fcall.group) :
          fcall' = Returned(o)
    /\ UNCHANGED <<inventory, executor, play, phase, jobs, results, main>>

NextCalls ==
    \/ CallGetHostVars
    \/ CallEvalWhen
    \/ CallRender
    \/ CallModule
    \/ CallEnsureFile
    \/ CallLineinfile
    \/ CallFromIni

SpecCalls == InitCalls /\ [][NextCalls]_vars

(***************************************************************************)
(* render, one pass at a time and the last pass one iteration of its loop  *)
(* at a time, also on scopes whose values hold expressions.  fcall.seen    *)
(* holds the texts the loop of process_variables has started an iteration  *)
(* on.                                                                     *)
(***************************************************************************)
\* x and y each hold an expression of the other; x holds an expression of
\* itself; x holds an expression of y, which holds none
CyclicScopes ==
    {[k \in {"x", "y"} |-> IF k = "x" THEN "{{ y }}" ELSE "{{ x }}"],
     [k \in {"x"} |-> "{{ x }}"],
     [k \in {"x", "y"} |-> IF k = "x" THEN "{{ y }}" ELSE "v"]}

InitRender ==
    /\ inventory = InventoryLayered
    /\ executor = ExecutorMain
    /\ play = NoPlay
    /\ phase = "idle"
    /\ jobs = <<>>
    /\ results = <<>>
    /\ main = NoMain
    /\ \E template \in Templates, vs \in RenderScopes \cup CyclicScopes :
          fcall = [fn |-> "render", pc |-> "comments", text |-> template, vars |-> vs,
                   seen |-> {}]

\* the call after a pass has left text
RenderPass(to, text) ==
    [fcall EXCEPT !.pc = to, !.text = text,
                  !.seen = IF fcall.pc = "variables" THEN @ \cup {fcall.text} ELSE @]

RenderComments ==
    /\ fcall.fn = "render" /\ fcall.pc = "comments"
    /\ fcall' = RenderPass("conditionals", process_comments(fcall.text))
    /\ UNCHANGED <<inventory, executor, play, phase, jobs, results, main>>

RenderConditionals ==
    /\ fcall.fn = "render" /\ fcall.pc = "conditionals"
    /\ fcall' = RenderPass("loops", process_conditionals(fcall.text, fcall.vars))
    /\ UNCHANGED <<inventory, executor, play, phase, jobs, results, main>>

RenderLoops ==
    /\ fcall.fn = "render" /\ fcall.pc = "loops"
    /\ fcall' = RenderPass("variables", process_loops(fcall.text, fcall.vars))
    /\ UNCHANGED <<inventory, executor, play, phase, jobs, results, main>>

\* while let Some(start) = result.find("{{"): one iteration, or the return
RenderVariables ==
    /\ fcall.fn = "render" /\ fcall.pc = "variables"
    /\ LET next == variables_iteration(fcall.text, fcall.vars)
       IN  fcall' = IF IsSome(next) THEN RenderPass("variables", Unwrap(next))
                    ELSE RenderPass("returned", fcall.text)
    /\ UNCHANGED <<inventory, executor, play, phase, jobs, results, main>>

NextRender == RenderComments \/ RenderConditionals \/ RenderLoops \/ RenderVariables

SpecRender == InitRender /\ [][NextRender]_vars

\* the target list run_play handed to the pool
TargetList == [i \in 1..Len(jobs) |-> jobs[i].host]

\* C13: when the play's host pattern names a group (and no limit is set),
\* the targets are the hosts of the group and of all its descendant groups.
C13_GroupPatternIsRecursive ==
    (phase # "init" /\ play.hosts \in DOMAIN inventory.groups /\ ~IsSome(executor.limit)) =>
        ToSet(TargetList) = ToSet(get_group_hosts(play.hosts))

\* the components of a limit: trimmed, the empty ones dropped
LimitComponents(limit) == {Trim(c) : c \in ToSet(Split(limit, ":"))} \ {""}

NegatedComponents(limit) == {c \in LimitComponents(limit) : StartsWith(c, "!")}

LimitIncluded(limit) ==
    UNION {expand_limit_pattern(c) : c \in LimitComponents(limit) \ NegatedComponents(limit)}

LimitExcluded(limit) ==
    UNION {expand_limit_pattern(SliceFrom(c, 1)) : c \in NegatedComponents(limit)}

\* C14: with a limit set, the target list is a pattern expansion of
\* play.hosts, in its order, restricted to the hosts of the limit: the union
\* of what the non-negated components expand to (all inventory hosts when
\* that union is empty) minus the union of what the negated components
\* expand to; no host a negated component expands to is targeted.
C14_LimitFiltersPattern ==
    (phase # "init" /\ IsSome(executor.limit)) =>
        LET limit == Unwrap(executor.limit)
            base  == IF LimitIncluded(limit) = {} THEN DOMAIN inventory.hosts
                     ELSE LimitIncluded(limit)
            keep  == base \ LimitExcluded(limit)
        IN  /\ \E hosts \in resolve_pattern(play.hosts) :
                  TargetList = SelectSeq(hosts, LAMBDA h : h \in keep)
            /\ ToSet(TargetList) \cap LimitExcluded(limit) = {}

\* a limit made of negated components only left the hosts they do not match
C14_Witness ==
    /\ phase = "running"
    /\ IsSome(executor.limit)
    /\ LimitIncluded(Unwrap(executor.limit)) = {}
    /\ LimitExcluded(Unwrap(executor.limit)) # {}
    /\ Len(jobs) = 2
    /\ play.hosts = "all"

ActiveJobs(js) == {i \in 1..Len(js) : js[i].pc \notin {"queued", "done"}}

\* C20: forks is at least 1; after every step at most forks hosts are
\* inside run_play_on_host, each on a thread of its own; a host keeps the
\* thread that took it from its first to its last step, and a step
\* advances one host by one iteration of its loops.
C20_AtMostForksHostsAtOnce ==
    [][/\ executor.forks >= 1
       /\ Cardinality(ActiveJobs(jobs')) <= executor.forks
       /\ \A i, j \in ActiveJobs(jobs') : i # j => jobs'[i].worker # jobs'[j].worker
       /\ \A i \in ActiveJobs(jobs) : jobs'[i].worker = jobs[i].worker
       /\ Len(jobs) > 0 =>
             /\ Len(jobs') = Len(jobs)
             /\ Cardinality({i \in 1..Len(jobs) : jobs'[i] # jobs[i]}) <= 1
             /\ \A i \in 1..Len(jobs) :
                   Len(jobs'[i].log) \in {Len(jobs[i].log), Len(jobs[i].log) + 1}]_vars

\* with forks = 2 and three targets, two hosts are being processed while
\* the third waits for a thread
C20_Witness ==
    /\ executor.forks = 2
    /\ Len(jobs) = 3
    /\ Cardinality(ActiveJobs(jobs)) = 2
    /\ \E i \in 1..Len(jobs) : jobs[i].pc = "queued"

GroupContains(g, host_name) == SeqContains(get_group_hosts(g), host_name)

\* C16: in the map get_host_vars(H) returns, a key of H's own vars has the
\* host's value; a key that H does not set and that a parent group and a
\* child group of it containing H both define has the child's value.
C16_HostVarsPrecedence ==
    (fcall.fn = "get_host_vars" /\ fcall.pc = "returned"
       /\ fcall.args.host_name \in DOMAIN inventory.hosts) =>
        LET H    == fcall.args.host_name
            own  == inventory.hosts[H].vars
        IN  /\ \A k \in DOMAIN own : fcall.result[k] = own[k]
            /\ \A parent, child \in DOMAIN inventory.groups :
                  (SeqContains(inventory.groups[parent].children, child)
                     /\ GroupContains(child, H)) =>
                    \A k \in (DOMAIN inventory.groups[parent].vars
                               \cap DOMAIN inventory.groups[child].vars) \ DOMAIN own :
                        fcall.result[k] = inventory.groups[child].vars[k]

\* C17: the value of eval_when on a condition that starts with "not " is
\* the negation of its value on the rest of the condition, also when the
\* rest is a comparison.
C17_NotBeforeComparison ==
    (fcall.fn = "eval_when" /\ fcall.pc = "returned"
       /\ StartsWith(fcall.args.condition, "not ")) =>
        fcall.result = ~eval_when(SliceFrom(fcall.args.condition, 4), fcall.args.vars)

TemplateSyntax == {"{{", "{%", "{#"}

\* C18: rendering the output of render once more, in the same scope, gives
\* the same text, when no value of the scope contains template syntax.
C18_RenderIdempotent ==
    (fcall.fn = "render" /\ fcall.pc = "returned"
       /\ \A k \in DOMAIN fcall.args.vars :
             \A x \in TemplateSyntax : ~Contains(fcall.args.vars[k], x)) =>
        render(fcall.result, fcall.args.vars) = fcall.result

\* C19: when a module has run twice with the same arguments and its first
\* run did not fail, its second run reports changed = false.
C19_SecondRunUnchanged ==
    (fcall.fn = "run_module" /\ fcall.module = "service" /\ Len(fcall.runs) = 2
       /\ ~fcall.runs[1].result.failed) =>
        ~fcall.runs[2].result.changed

\* C21: run_play returns only when every host job has finished, with one
\* PlayResult per target host, in the order of the targets; a job advances
\* only while its run_play is running, and main takes the next play only
\* when every job of the previous one has finished and its results are in.
C21_RunPlayJoinsAllHosts ==
    [][/\ (phase = "running" /\ phase' = "returned") =>
             /\ \A i \in 1..Len(jobs) : jobs[i].pc = "done"
             /\ Len(results') = Len(jobs)
             /\ \A i \in 1..Len(jobs) :
                   results'[i].host = jobs[i].host /\ results'[i] = jobs[i].result
       /\ (jobs' # jobs /\ jobs' # <<>>) => phase' = "running"
       /\ play' # play =>
             /\ \A i \in 1..Len(jobs) : jobs[i].pc = "done"
             /\ phase = "idle"
             /\ Len(main.history) = Len(main.playbook) - Len(main.rest)
             /\ main.history # <<>> => main.history[Len(main.history)] = results]_vars

\* the second play of a playbook is running after run_play returned two
\* PlayResults for the first
C21_Witness ==
    /\ main.pc = "loop"
    /\ Len(main.history) = 1
    /\ Len(main.history[1]) = 2
    /\ phase = "running"
    /\ \E i \in 1..Len(jobs) : jobs[i].pc = "tasks"

\* the jobs whose host is in the inventory and whose connection failed
ConnectFailures ==
    {i \in 1..Len(jobs) : /\ jobs[i].pc = "done"
                          /\ jobs[i].host \in DOMAIN inventory.hosts
                          /\ ~Connected(jobs[i])}

\* C22: a host whose connection could not be opened has failed = 1, no
\* other count, and one task result, named CONNECT and failed; none of its
\* tasks or handlers ran; when run_play has returned, every host that was
\* connected has had every task of the play processed.
C22_ConnectFailureIsPerHost ==
    /\ \A i \in ConnectFailures :
          LET r == jobs[i].result
          IN  /\ r.failed = 1 /\ r.ok = 0 /\ r.changed = 0 /\ r.skipped = 0
              /\ Len(r.task_results) = 1
              /\ r.task_results[1].task_name = "CONNECT"
              /\ r.task_results[1].result.failed
              /\ TaskEntries(jobs[i]) = {} /\ HandlerEntries(jobs[i]) = {}
    /\ phase = "returned" =>
          \A i \in 1..Len(jobs) :
             Connected(jobs[i]) =>
               {jobs[i].log[k].idx : k \in TaskEntries(jobs[i])} = 1..Len(play.tasks)

\* run_play has returned: the connection to db1 failed and the two other
\* targets had their task run
C22_Witness ==
    /\ phase = "returned"
    /\ Len(jobs) = 3
    /\ ConnectFailures # {}
    /\ \A i \in (1..Len(jobs)) \ ConnectFailures :
          Connected(jobs[i]) /\ Cardinality(TaskEntries(jobs[i])) = 1

\* C23: with_output with rc # 0 gives failed = TRUE and records rc; and when
\* a module has returned, its result is failed if one of its mutation
\* steps (the steps after its check) exited non-zero or could not be run.
C23_FailedMutationFailsModule ==
    /\ \A rc \in {1, 2, 127} :
          LET r == with_output(ModuleResult_changed("command executed"), "", "err", rc)
          IN  r.failed /\ r.rc = rc
    /\ (fcall.fn = "ensure_file" /\ fcall.pc = "returned") =>
          LET steps == fcall.result.steps
          IN  (\E k \in 2..Len(steps) : ~(steps[k].answer.ok /\ steps[k].answer.exit_code = 0))
                => fcall.result.result.failed

\* C24: the text render returns holds no if tag, and for a template that
\* ends with {% if x %}a{% else %}b{% endif %} it ends with a when x is
\* true in the scope and with b when it is not, whatever precedes the
\* block (every template rendered here is well-formed).
C24_IfBlocksAreRendered ==
    (fcall.fn = "render" /\ fcall.pc = "returned") =>
        /\ ~Contains(fcall.result, "{% if ")
        /\ EndsWith(fcall.args.template, "{% if x %}a{% else %}b{% endif %}") =>
              EndsWith(fcall.result,
                       IF eval_condition("x", fcall.args.vars) THEN "a" ELSE "b")

\* the text of one inner body per pair, the outer item before the inner
RECURSIVE EachInner(_, _)
EachInner(x, ys) ==
    IF Len(ys) = 0 THEN "" ELSE x \o ys[1] \o ";" \o EachInner(x, Tail(ys))

RECURSIVE EachPair(_, _)
EachPair(xs, ys) ==
    IF Len(xs) = 0 THEN "" ELSE EachInner(xs[1], ys) \o EachPair(Tail(xs), ys)

\* C25: for the template with a loop over ys inside a loop over xs whose
\* inner body is {{ a }}{{ b }}; render returns the inner body once per
\* pair of items, in order, with a and b bound to the pair.
C25_NestedLoopsBindBothVariables ==
    (fcall.fn = "render" /\ fcall.pc = "returned"
       /\ fcall.args.template
            = "{% for a in xs %}{% for b in ys %}{{ a }}{{ b }};{% endfor %}{% endfor %}") =>
        fcall.result = EachPair(get_list_items("xs", fcall.args.vars),
                                get_list_items("ys", fcall.args.vars))

\* what fcall.host_paths says of the gate of the task: the path of creates
\* exists on the host, or the path of removes does not
GateClosed ==
    \/ "creates" \in DOMAIN fcall.args /\ fcall.args["creates"] \in fcall.host_paths
    \/ "removes" \in DOMAIN fcall.args /\ fcall.args["removes"] \notin fcall.host_paths

\* C26: a shell or raw module run with creates = P on a host where P
\* exists, or with removes = P where P does not exist, executes no command
\* and returns ok with changed = false.
C26_CreatesRemovesGateTheCommand ==
    (fcall.fn = "run_module" /\ fcall.module \in {"shell", "raw"} /\ GateClosed) =>
        \A k \in 1..Len(fcall.runs) :
           /\ \A n \in 1..Len(fcall.runs[k].ops) :
                 ~Contains(fcall.runs[k].ops[n].arg, fcall.args["cmd"])
           /\ ~fcall.runs[k].result.changed
           /\ ~fcall.runs[k].result.failed

LinesOf(file) == IF IsSome(file) THEN Lines(Unwrap(file)) ELSE <<>>

\* C27: a lineinfile call with state = absent and a line leaves no line in
\* the file that was not there, leaves no line equal to line, reports
\* changed exactly when the file held such a line, and writes nothing when
\* it held none.
C27_AbsentNeverAddsALine ==
    (fcall.fn = "run_lineinfile" /\ fcall.pc = "returned"
       /\ "state" \in DOMAIN fcall.args.args /\ fcall.args.args["state"] = "absent"
       /\ "line" \in DOMAIN fcall.args.args /\ ~fcall.result.result.failed) =>
        LET before == ToSet(LinesOf(fcall.args.file))
            after  == ToSet(LinesOf(fcall.result.file))
            line   == fcall.args.args["line"]
        IN  /\ after \subseteq before
            /\ line \notin after
            /\ fcall.result.result.changed <=> line \in before
            /\ line \notin before => Len(fcall.result.ops) = 1

\* C28: no host name is twice in the target list run_play hands to the
\* pool, so no two jobs, and no two PlayResults, are of the same host.
C28_TargetsAreDistinct ==
    /\ \A i, j \in 1..Len(jobs) : i # j => jobs[i].host # jobs[j].host
    /\ \A i, j \in 1..Len(results) : i # j => results[i].host # results[j].host

\* C29: every call of render returns: the loop of process_variables, whose
\* next text is a function of its text and the scope, never starts an
\* iteration on a text it has started one on before (from such a text it
\* would come back to it for ever).
C29_RenderTerminates ==
    (fcall.fn = "render" /\ fcall.pc = "variables") => fcall.text \notin fcall.seen

\* C30: from_ini returns for every text: on every line that holds a host
\* pattern expand_host_pattern returns a list of names and does not panic.
C30_FromIniNeverAborts ==
    (fcall.fn = "from_ini" /\ fcall.pc = "returned") => ~fcall.result.panic
====
